---------------------------- MODULE Spec2Model ----------------------------
(***************************************************************************)
(* cpm-knowledge-extractor: the extraction-and-classification pipeline of  *)
(* one repository (processRepo): discoverFiles -> extractKnowledge (with   *)
(* the hasKnowledgeSignal filter inline) -> classifyFragments.             *)
(*                                                                         *)
(* Text is modelled by TLA+ strings; TLC evaluates Len, SubSeq and \o on   *)
(* them, so every JavaScript string operation of the source (split, trim,  *)
(* toLowerCase, includes, the regular expressions) is computed character   *)
(* by character as the source computes it.                                 *)
(***************************************************************************)
EXTENDS Integers, Sequences, FiniteSets, TLC

VARIABLES
  fs,          \* the repository's directory tree: relative path -> entry
  stack,       \* detectStack's result (external collaborator, an input)
  repoInfo,    \* {owner, name, url} of the repository (an input)
  pc,          \* processRepo's position
  found,       \* discoverFiles' result (const files)
  fileIdx,     \* extractKnowledge's loop position in files
  blocks,      \* extractKnowledge's accumulator (const blocks)
  candidates,  \* history: every section handed to hasKnowledgeSignal, with its verdict
  warnings,    \* relative paths logged by console.warn in extractKnowledge
  fragments,   \* processRepo's return value
  repos,       \* main's list of repositories to process (an input)
  repoIdx,     \* main's loop position in repos
  returned,    \* history: what processRepo returned for each repository so far
  allFragments, \* main's accumulator (let allFragments)
  located      \* history: how processRepo got each repository so far, "local" or "clone"

vars == <<fs, stack, repoInfo, pc, found, fileIdx, blocks, candidates, warnings, fragments,
          repos, repoIdx, returned, allFragments, located>>

\* the variables of main's loop
mainVars == <<repos, repoIdx, returned, allFragments, located>>

-----------------------------------------------------------------------------
(* Bounds of the model *)

\* number of text chunks a generated file is put together from
MaxChunks == 2
\* number of well-known paths present in a generated tree
MaxPresent == 2

-----------------------------------------------------------------------------
(* JavaScript string primitives *)

\* the character of s at position i, the empty string outside s
CharAt(s, i) == IF i >= 1 /\ i <= Len(s) THEN SubSeq(s, i, i) ELSE ""

\* the characters \s matches (and trim() strips) among those the model's texts use
IsSpace(c) == c \in {" ", "\t", "\n", "\r"}

IsDigit(c) == c \in {"0", "1", "2", "3", "4", "5", "6", "7", "8", "9"}

UpperChars == "ABCDEFGHIJKLMNOPQRSTUVWXYZÆØÅ"
LowerChars == "abcdefghijklmnopqrstuvwxyzæøå"

\* each upper-case letter's lower-case letter
UpperToLower ==
  [c \in {CharAt(UpperChars, i) : i \in 1..Len(UpperChars)} |->
     CharAt(LowerChars, CHOOSE i \in 1..Len(UpperChars) : CharAt(UpperChars, i) = c)]

LowerChar(c) == IF c \in DOMAIN UpperToLower THEN UpperToLower[c] ELSE c

RECURSIVE LowerRange(_, _, _)
\* the characters lo..hi of s, each in lower case
LowerRange(s, lo, hi) ==
  IF lo > hi THEN ""
  ELSE IF lo = hi THEN LowerChar(CharAt(s, lo))
  ELSE LET mid == (lo + hi) \div 2
       IN  LowerRange(s, lo, mid) \o LowerRange(s, mid + 1, hi)

\* String.prototype.toLowerCase
toLowerCase(s) == LowerRange(s, 1, Len(s))

\* String.prototype.includes
includes(s, w) ==
  \E i \in 1..(Len(s) - Len(w) + 1) : SubSeq(s, i, i + Len(w) - 1) = w

\* String.prototype.startsWith
startsWith(s, w) == Len(w) <= Len(s) /\ SubSeq(s, 1, Len(w)) = w

\* w occurs in s at position i
At(s, i, w) == i >= 1 /\ i + Len(w) - 1 <= Len(s) /\ SubSeq(s, i, i + Len(w) - 1) = w

RECURSIVE SkipSpace(_, _)
\* the first position >= i of s that holds no whitespace (Len(s) + 1 if none)
SkipSpace(s, i) ==
  IF i > Len(s) THEN i
  ELSE IF IsSpace(CharAt(s, i)) THEN SkipSpace(s, i + 1) ELSE i

RECURSIVE SkipSpaceBack(_, _)
\* the last position <= i of s that holds no whitespace (0 if none)
SkipSpaceBack(s, i) ==
  IF i < 1 THEN 0
  ELSE IF IsSpace(CharAt(s, i)) THEN SkipSpaceBack(s, i - 1) ELSE i

\* String.prototype.trim
trim(s) == SubSeq(s, SkipSpace(s, 1), SkipSpaceBack(s, Len(s)))

\* content.split('\n'): the pieces between the line feeds, one more than there are
splitLines(s) ==
  LET feeds == {i \in 1..Len(s) : CharAt(s, i) = "\n"}
      feed(k) == IF k = 0 THEN 0
                 ELSE IF k > Cardinality(feeds) THEN Len(s) + 1
                 ELSE CHOOSE i \in feeds : Cardinality({j \in feeds : j < i}) = k - 1
  IN  [k \in 1..(Cardinality(feeds) + 1) |-> SubSeq(s, feed(k - 1) + 1, feed(k) - 1)]

RECURSIVE joinLines(_)
\* lines.join('\n')
joinLines(lines) ==
  IF Len(lines) = 0 THEN ""
  ELSE IF Len(lines) = 1 THEN lines[1]
  ELSE lines[1] \o "\n" \o joinLines(Tail(lines))

\* some word of ws occurs in s (a regular expression that is an alternation of literals)
anyWord(s, ws) == \E w \in ws : includes(s, w)


\* String.prototype.endsWith
endsWith(s, w) == Len(w) <= Len(s) /\ SubSeq(s, Len(s) - Len(w) + 1, Len(s)) = w

-----------------------------------------------------------------------------
(* discover.js *)

KNOWLEDGE_FILES == <<
  [pattern |-> "CLAUDE.md",                       priority |-> 1, category |-> "ai-instructions"],
  [pattern |-> ".cursorrules",                    priority |-> 1, category |-> "ai-instructions"],
  [pattern |-> ".cursor/rules",                   priority |-> 1, category |-> "ai-instructions"],
  [pattern |-> ".clinerules",                     priority |-> 1, category |-> "ai-instructions"],
  [pattern |-> "AGENTS.md",                       priority |-> 1, category |-> "ai-instructions"],
  [pattern |-> "copilot-instructions.md",         priority |-> 1, category |-> "ai-instructions"],
  [pattern |-> ".github/copilot-instructions.md", priority |-> 1, category |-> "ai-instructions"],
  [pattern |-> "CONVENTIONS.md",                  priority |-> 2, category |-> "conventions"],
  [pattern |-> "CODING_STANDARDS.md",             priority |-> 2, category |-> "conventions"],
  [pattern |-> "STYLE_GUIDE.md",                  priority |-> 2, category |-> "conventions"],
  [pattern |-> "ARCHITECTURE.md",                 priority |-> 2, category |-> "architecture"],
  [pattern |-> "DESIGN.md",                       priority |-> 2, category |-> "architecture"],
  [pattern |-> "CONTRIBUTING.md",                 priority |-> 3, category |-> "contributing"],
  [pattern |-> "README.md",                       priority |-> 3, category |-> "readme"],
  [pattern |-> "SECURITY.md",                     priority |-> 3, category |-> "security"],
  [pattern |-> ".eslintrc.json",                  priority |-> 4, category |-> "linting"],
  [pattern |-> ".eslintrc.js",                    priority |-> 4, category |-> "linting"],
  [pattern |-> ".eslintrc.cjs",                   priority |-> 4, category |-> "linting"],
  [pattern |-> "eslint.config.js",                priority |-> 4, category |-> "linting"],
  [pattern |-> "eslint.config.mjs",               priority |-> 4, category |-> "linting"],
  [pattern |-> "tsconfig.json",                   priority |-> 4, category |-> "typescript"],
  [pattern |-> ".prettierrc",                     priority |-> 4, category |-> "formatting"],
  [pattern |-> ".prettierrc.json",                priority |-> 4, category |-> "formatting"],
  [pattern |-> "biome.json",                      priority |-> 4, category |-> "linting"] >>

\* parseInt(process.env.MAX_DOCS_DEPTH || '3', 10), the environment variable unset
maxDepth == 3

\* the repoPath processRepo hands to discoverFiles and extractKnowledge
repoPath == "/work/repo"

\* path.join(dir, name)
join(dir, name) == dir \o "/" \o name

\* path.relative(repoRoot, fullPath), fullPath below repoRoot
relative(repoRoot, fullPath) == SubSeq(fullPath, Len(repoRoot) + 2, Len(fullPath))

\* fs.stat(fullPath): the kind of the entry, "absent" where stat rejects (ENOENT)
stat(tree, fullPath) ==
  LET rel == relative(repoPath, fullPath)
  IN  IF rel \in DOMAIN tree THEN tree[rel].kind ELSE "absent"

\* /\.(md|mdx|txt)$/i.test(name)
isDocName(name) ==
  LET lower == toLowerCase(name)
  IN  endsWith(lower, ".md") \/ endsWith(lower, ".mdx") \/ endsWith(lower, ".txt")

RECURSIVE scanDocsDir(_, _, _), scanEntries(_, _, _, _, _)
\* scanDocsDir without the test of the depth
scanDocsDir_noLimit(tree, dirPath, depth) ==
  LET rel == relative(repoPath, dirPath)
  IN  IF ~tree[rel].readable THEN [ok |-> FALSE, files |-> <<>>]
      ELSE scanEntries(tree, dirPath, depth, tree[rel].names, <<>>)

\* the result is [ok, files]: ok = FALSE where readdir rejected somewhere below
scanDocsDir(tree, dirPath, depth) ==
  IF depth > maxDepth THEN [ok |-> TRUE, files |-> <<>>]
  ELSE LET rel == relative(repoPath, dirPath)
       IN  IF ~tree[rel].readable THEN [ok |-> FALSE, files |-> <<>>]
           ELSE scanEntries(tree, dirPath, depth, tree[rel].names, <<>>)

\* the for loop of scanDocsDir over the entries readdir returned
scanEntries(tree, dirPath, depth, names, results) ==
  IF names = <<>> THEN [ok |-> TRUE, files |-> results]
  ELSE LET name == Head(names)
           fullPath == join(dirPath, name)
           kind == stat(tree, fullPath)
       IN  IF kind = "dir" /\ ~startsWith(name, ".")
           THEN LET nested == scanDocsDir(tree, fullPath, depth + 1)
                IN  IF ~nested.ok THEN nested
                    ELSE scanEntries(tree, dirPath, depth, Tail(names), results \o nested.files)
           ELSE IF kind = "file" /\ isDocName(name)
           THEN scanEntries(tree, dirPath, depth, Tail(names),
                            Append(results, [path |-> fullPath,
                                             relativePath |-> relative(repoPath, fullPath),
                                             priority |-> 3,
                                             category |-> "documentation"]))
           ELSE scanEntries(tree, dirPath, depth, Tail(names), results)

RECURSIVE knownFiles_noIsFile(_, _)
\* knownFiles without the s.isFile() test: whatever stat resolves is pushed
knownFiles_noIsFile(tree, k) ==
  IF k > Len(KNOWLEDGE_FILES) THEN <<>>
  ELSE LET knownFile == KNOWLEDGE_FILES[k]
           fullPath == join(repoPath, knownFile.pattern)
       IN  (IF stat(tree, fullPath) # "absent"
            THEN <<[path |-> fullPath, relativePath |-> knownFile.pattern,
                    priority |-> knownFile.priority, category |-> knownFile.category]>>
            ELSE <<>>) \o knownFiles_noIsFile(tree, k + 1)

RECURSIVE knownFiles(_, _)
\* the first loop of discoverFiles, from table entry k on
knownFiles(tree, k) ==
  IF k > Len(KNOWLEDGE_FILES) THEN <<>>
  ELSE LET knownFile == KNOWLEDGE_FILES[k]
           fullPath == join(repoPath, knownFile.pattern)
       IN  (IF stat(tree, fullPath) = "file"
            THEN <<[path |-> fullPath, relativePath |-> knownFile.pattern,
                    priority |-> knownFile.priority, category |-> knownFile.category]>>
            ELSE <<>>) \o knownFiles(tree, k + 1)

RECURSIVE Reversed(_)
Reversed(list) == IF list = <<>> THEN <<>> ELSE Append(Reversed(Tail(list)), Head(list))

\* a sort by priority that is not stable: files of equal priority come out in reverse
sortByPriority_unstable(list) ==
  Reversed(SelectSeq(list, LAMBDA f : f.priority = 1))
    \o Reversed(SelectSeq(list, LAMBDA f : f.priority = 2))
    \o Reversed(SelectSeq(list, LAMBDA f : f.priority = 3))
    \o Reversed(SelectSeq(list, LAMBDA f : f.priority = 4))

\* found.sort((a, b) => a.priority - b.priority): Array.prototype.sort is stable
sortByPriority(list) ==
  SelectSeq(list, LAMBDA f : f.priority = 1) \o SelectSeq(list, LAMBDA f : f.priority = 2)
    \o SelectSeq(list, LAMBDA f : f.priority = 3) \o SelectSeq(list, LAMBDA f : f.priority = 4)

discoverFiles(tree) ==
  LET docsDir == join(repoPath, "docs")
      docFiles == IF stat(tree, docsDir) = "dir"
                  THEN LET r == scanDocsDir(tree, docsDir, 0)
                       IN  IF r.ok THEN r.files ELSE <<>>
                  ELSE <<>>
  IN  sortByPriority(knownFiles(tree, 1) \o docFiles)

-----------------------------------------------------------------------------
(* extract.js *)

\* line.match(/^(#{1,3})\s+(.+)/): [matched, title], title the second group
headingMatch(line) ==
  LET hashes == IF startsWith(line, "###") THEN 3
                ELSE IF startsWith(line, "##") THEN 2
                ELSE IF startsWith(line, "#") THEN 1 ELSE 0
      rest == SkipSpace(line, hashes + 1)
  IN  IF hashes = 0 \/ rest = hashes + 1 THEN [matched |-> FALSE, title |-> ""]
      ELSE IF rest <= Len(line) THEN [matched |-> TRUE, title |-> SubSeq(line, rest, Len(line))]
      \* only whitespace follows: \s+ gives its last character back to (.+)
      ELSE IF rest - (hashes + 1) >= 2
           THEN [matched |-> TRUE, title |-> SubSeq(line, Len(line), Len(line))]
           ELSE [matched |-> FALSE, title |-> ""]

\* content.split('\n').filter(l => l.trim().length > 0).length
nonBlankLines(content) ==
  Len(SelectSeq(splitLines(content), LAMBDA l : Len(trim(l)) > 0))

\* the license/legal test of hasKnowledgeSignal
isLegalBoilerplate(content) ==
  LET lowerContent == toLowerCase(content)
  IN  \/ includes(lowerContent, "mit license")
      \/ includes(lowerContent, "apache license")
      \/ startsWith(lowerContent, "copyright")

\* s holds w1, then one or more whitespace characters, then w2, from position 1
startsWithSpaced(s, w1, w2) ==
  /\ startsWith(s, w1)
  /\ SkipSpace(s, Len(w1) + 1) > Len(w1) + 1
  /\ At(s, SkipSpace(s, Len(w1) + 1), w2)

RECURSIVE SkipDigits(_, _)
SkipDigits(s, i) ==
  IF i > Len(s) THEN i
  ELSE IF IsDigit(CharAt(s, i)) THEN SkipDigits(s, i + 1) ELSE i

\* /^(seneste\s+)?session|^tidligere\s+session|^changelog|^version\s+histor|^v\d+\.\d+/i.test(section)
isSessionLogTitle(section) ==
  LET s == toLowerCase(section)
      d == SkipDigits(s, 2)
  IN  \/ startsWith(s, "session")
      \/ startsWithSpaced(s, "seneste", "session")
      \/ startsWithSpaced(s, "tidligere", "session")
      \/ startsWith(s, "changelog")
      \/ startsWithSpaced(s, "version", "histor")
      \/ (startsWith(s, "v") /\ d > 2 /\ At(s, d, ".") /\ SkipDigits(s, d + 1) > d + 1)

\* /\*\*.*\*\*/.test(content): two ** on one line
hasBold(content) ==
  \E k \in 1..Len(splitLines(content)) :
    LET l == splitLines(content)[k]
    IN  \E i \in 1..Len(l) : \E j \in (i + 2)..Len(l) : At(l, i, "**") /\ At(l, j, "**")

\* /^\s*[-*]\s/m.test(content): a - or * that only whitespace separates from the
\* start of a line, followed by a whitespace character
hasBullet(content) ==
  \E p \in 1..(Len(content) - 1) :
    /\ CharAt(content, p) \in {"-", "*"}
    /\ IsSpace(CharAt(content, p + 1))
    /\ LET r == SkipSpaceBack(content, p - 1)
       IN  r = 0 \/ \E q \in (r + 1)..(p - 1) : CharAt(content, q) \in {"\n", "\r"}

\* The characters of /[\u274c\u2705\u26a0\ufe0f]/ and the backquote lie outside the
\* character set of TLA+ strings; the model's texts write them as these Latin-1
\* characters, which occur in no other role.
Backquote == "´"
CodeFence == Backquote \o Backquote \o Backquote
CrossMark == "×"
CheckMark == "¤"
WarningSign == "¡"
VariationSelector == "¨"

\* hasPositiveSignal without the two Danish patterns
hasPositiveSignal_noDanish(content) ==
  LET lower == toLowerCase(content)
  IN  \/ anyWord(lower, {"must", "should", "always", "never", "don't", "avoid", "prefer", "require"})
      \/ anyWord(lower, {"pattern", "convention", "rule", "standard", "best practice"})
      \/ anyWord(lower, {"import", "export", "async", "await", "function", "class", "const", "let"})
      \/ anyWord(lower, {"error", "test", "lint", "format", "style", "security", "auth"})
      \/ includes(content, CodeFence)
      \/ hasBold(content)
      \/ includes(content, "- [ ]") \/ includes(content, "- [x]")
      \/ hasBullet(content)
      \/ anyWord(content, {CrossMark, CheckMark, WarningSign, VariationSelector})

\* const signals = [...]; signals.some(signal => signal.test(content))
hasPositiveSignal(content) ==
  LET lower == toLowerCase(content)
  IN  \/ anyWord(lower, {"must", "should", "always", "never", "don't", "avoid", "prefer", "require"})
      \/ anyWord(lower, {"skal", "altid", "aldrig", "undgå", "brug ikke", "foretrækker",
                         "påkrævet", "obligatorisk"})
      \/ anyWord(lower, {"pattern", "convention", "rule", "standard", "best practice"})
      \/ anyWord(lower, {"mønster", "konvention", "regel", "vigtigt"})
      \/ anyWord(lower, {"import", "export", "async", "await", "function", "class", "const", "let"})
      \/ anyWord(lower, {"error", "test", "lint", "format", "style", "security", "auth"})
      \/ includes(content, CodeFence)
      \/ hasBold(content)
      \/ includes(content, "- [ ]") \/ includes(content, "- [x]")
      \/ hasBullet(content)
      \/ anyWord(content, {CrossMark, CheckMark, WarningSign, VariationSelector})

\* hasKnowledgeSignal of an earlier revision: one threshold of 30 for every block,
\* no preamble rule and no session-log rule
hasKnowledgeSignal_v1(content, section) ==
  /\ ~(Len(content) < 30)
  /\ ~isLegalBoilerplate(content)
  /\ hasPositiveSignal(content)

\* hasKnowledgeSignal with the preamble rule off by one: 2 non-blank lines pass
hasKnowledgeSignal_thinPreamble(content, section) ==
  /\ ~(Len(content) < 50)
  /\ ~(section = "preamble" /\ nonBlankLines(content) < 2)
  /\ ~isLegalBoilerplate(content)
  /\ ~(section # "" /\ isSessionLogTitle(section))
  /\ hasPositiveSignal(content)

\* hasKnowledgeSignal with the legal test on the content as written, not lower-cased
hasKnowledgeSignal_legalAsWritten(content, section) ==
  /\ ~(Len(content) < 50)
  /\ ~(section = "preamble" /\ nonBlankLines(content) < 3)
  /\ ~(includes(content, "mit license") \/ includes(content, "apache license")
         \/ startsWith(content, "copyright"))
  /\ ~(section # "" /\ isSessionLogTitle(section))
  /\ hasPositiveSignal(content)

hasKnowledgeSignal(content, section) ==
  /\ ~(Len(content) < 50)
  /\ ~(section = "preamble" /\ nonBlankLines(content) < 3)
  /\ ~isLegalBoilerplate(content)
  /\ ~(section # "" /\ isSessionLogTitle(section))
  /\ hasPositiveSignal(content)

\* the section handed to hasKnowledgeSignal, with its verdict
candidate(content, file, lineStart, lineEnd, section) ==
  [content |-> content, file |-> file.relativePath, category |-> file.category,
   priority |-> file.priority, lineStart |-> lineStart, lineEnd |-> lineEnd,
   section |-> section, kept |-> hasKnowledgeSignal(content, section)]

RECURSIVE splitLoop(_, _, _, _, _, _, _)
\* the for loop of splitBySections at lines[i] (1-based; the source's i is i - 1),
\* then the last section; acc collects the non-empty sections in order
splitLoop(lines, file, i, currentSection, currentLines, sectionStart, acc) ==
  IF i > Len(lines)
  THEN LET lastContent == trim(joinLines(currentLines))
       IN  IF lastContent # ""
           THEN Append(acc, candidate(lastContent, file, sectionStart, Len(lines), currentSection))
           ELSE acc
  ELSE LET line == lines[i]
           hm == headingMatch(line)
       IN  IF hm.matched /\ Len(currentLines) > 0
           THEN LET sectionContent == trim(joinLines(currentLines))
                IN  splitLoop(lines, file, i + 1, trim(hm.title), <<line>>, i,
                              IF sectionContent # ""
                              THEN Append(acc, candidate(sectionContent, file, sectionStart,
                                                         i - 1, currentSection))
                              ELSE acc)
           ELSE splitLoop(lines, file, i + 1, currentSection, Append(currentLines, line),
                          sectionStart, acc)

\* splitBySections, every non-empty section with the filter's verdict
sectionCandidates(content, file) ==
  splitLoop(splitLines(content), file, 1, "preamble", <<>>, 1, <<>>)

\* the block with a lineEnd one line too far, on the heading that ends the section
asBlock_endOnNextHeading(c) ==
  [content |-> c.content, file |-> c.file, category |-> c.category, priority |-> c.priority,
   lineStart |-> c.lineStart, lineEnd |-> c.lineEnd + 1, section |-> c.section]

\* a candidate as the block splitBySections pushes
asBlock(c) ==
  [content |-> c.content, file |-> c.file, category |-> c.category, priority |-> c.priority,
   lineStart |-> c.lineStart, lineEnd |-> c.lineEnd, section |-> c.section]

RECURSIVE keptBlocks(_)
keptBlocks(cs) ==
  IF cs = <<>> THEN <<>>
  ELSE (IF Head(cs).kept THEN <<asBlock(Head(cs))>> ELSE <<>>) \o keptBlocks(Tail(cs))

splitBySections(content, file) == keptBlocks(sectionCandidates(content, file))

\* isConfigCategory without the 'formatting' alternative
isConfigCategory_noFormatting(category) == category \in {"linting", "typescript"}

\* file.category === 'linting' || file.category === 'typescript' || file.category === 'formatting'
isConfigCategory(category) == category \in {"linting", "typescript", "formatting"}

\* the config branch of extractKnowledge: the whole file as one block
configBlock(content, file) ==
  [content |-> content, file |-> file.relativePath, category |-> file.category,
   priority |-> file.priority, lineStart |-> 1, lineEnd |-> Len(splitLines(content)),
   section |-> file.relativePath]

\* extractFile with a catch that pushes an empty block for the file it could not read
extractFile_blockOnError(tree, file) ==
  LET entry == tree[relative(repoPath, file.path)]
  IN  IF ~entry.readable THEN <<configBlock("", file)>>
      ELSE IF isConfigCategory(file.category) THEN <<configBlock(entry.content, file)>>
      ELSE splitBySections(entry.content, file)

\* the body of extractKnowledge's loop for one file: what it adds to blocks
\* (readFile rejects on an unreadable file; the catch adds nothing)
extractFile(tree, file) ==
  LET entry == tree[relative(repoPath, file.path)]
  IN  IF ~entry.readable THEN <<>>
      ELSE IF isConfigCategory(file.category) THEN <<configBlock(entry.content, file)>>
      ELSE splitBySections(entry.content, file)

-----------------------------------------------------------------------------
(* classify.js, the revision with title overrides and confidence by file category *)

CATEGORY_KEYWORDS == <<
  [category |-> "error-handling", keywords |-> <<"error", "catch", "throw", "exception", "try",
      "failure", "retry", "fallback", "fejlhåndtering">>],
  [category |-> "auth-pattern", keywords |-> <<"auth", "authentication", "authorization", "login",
      "session", "jwt", "token", "middleware", "clerk", "supabase auth", "biometric", "face id">>],
  [category |-> "testing", keywords |-> <<"test", "spec", "assert", "expect", "mock", "stub",
      "fixture", "vitest", "jest", "playwright", "coverage", "e2e">>],
  [category |-> "file-structure", keywords |-> <<"directory", "folder", "structure", "layout",
      "organize", "colocation", "barrel", "index", "monorepo">>],
  [category |-> "naming", keywords |-> <<"naming", "convention", "camelcase", "kebab", "pascal",
      "prefix", "suffix", "nomenclature">>],
  [category |-> "security", keywords |-> <<"security", "xss", "csrf", "injection", "sanitize",
      "escape", "cors", "csp", "owasp", "vulnerability", "rls", "row-level">>],
  [category |-> "performance", keywords |-> <<"performance", "cache", "lazy", "optimize", "bundle",
      "chunk", "prefetch", "preload", "memo">>],
  [category |-> "conventions", keywords |-> <<"convention", "standard", "rule", "guideline", "style",
      "format", "lint", "prettier", "regler", "vigtigt", "workflow", "aldrig", "altid">>],
  [category |-> "architecture", keywords |-> <<"architecture", "pattern", "design", "layer",
      "module", "separation", "concern", "dependency", "arkitektur">>],
  [category |-> "api-design", keywords |-> <<"api", "endpoint", "route", "handler", "request",
      "response", "rest", "graphql", "trpc">>],
  [category |-> "database", keywords |-> <<"database", "migration", "schema", "query", "index",
      "relation", "foreign key", "drizzle", "prisma", "supabase">>],
  [category |-> "deployment", keywords |-> <<"deploy", "ci", "cd", "docker", "kubernetes", "vercel",
      "fly", "github actions", "pipeline", "hosting", "pm2">>],
  [category |-> "imports", keywords |-> <<"import", "export", "module", "require", "barrel",
      "path alias", "absolute import">>],
  [category |-> "ui-patterns", keywords |-> <<"component", "button", "input", "form", "modal",
      "dialog", "toast", "badge", "ui pattern", "søgefelt", "clear">>],
  [category |-> "git-workflow", keywords |-> <<"git", "commit", "branch", "merge", "pull", "push",
      "rebase", "workflow">>] >>

\* every pattern is a literal tested with the i flag
TITLE_CATEGORY_OVERRIDES == <<
  [category |-> "conventions", patterns |-> {"regler", "rules", "conventions", "standards",
      "vigtigt", "important", "hård", "hard"}],
  [category |-> "ui-patterns", patterns |-> {"ui pattern", "component", "knap", "button", "søge",
      "search"}],
  [category |-> "git-workflow", patterns |-> {"git", "commit", "workflow"}],
  [category |-> "deployment", patterns |-> {"deploy", "hosting", "env", "sync"}],
  [category |-> "testing", patterns |-> {"test", "e2e", "spec"}],
  [category |-> "auth-pattern", patterns |-> {"auth", "login", "role", "rbac", "rolle"}] >>

TYPE_SIGNALS == <<
  [type |-> "anti-pattern", signals |-> {"never", "don't", "avoid", "do not", "bad", "wrong",
      "anti-pattern", "deprecated", "instead of", "aldrig", "undgå", "brug ikke", "forkert",
      CrossMark}],
  [type |-> "rule", signals |-> {"must", "always", "required", "shall", "enforce", "mandatory",
      "skal", "altid", "påkrævet", "obligatorisk", "vigtigt", "VIGTIGT", "non-negotiable",
      "hårde regler"}],
  [type |-> "pattern", signals |-> {"pattern", "approach", "technique", "strategy", "example",
      "how to", "implementation", "mønster", "tilgang", "eksempel", "sådan", CheckMark}],
  [type |-> "convention", signals |-> {"convention", "standard", "style", "format", "naming",
      "prefer", "recommendation", "konvention", "foretrækker", "anbefaling"}] >>

RECURSIVE countFrom(_, _, _)
\* (s.match(new RegExp(kw, 'gi')) || []).length on lower-case s, kw a literal: the
\* occurrences of kw found left to right without overlap
countFrom(s, kw, i) ==
  IF i + Len(kw) - 1 > Len(s) THEN 0
  ELSE IF SubSeq(s, i, i + Len(kw) - 1) = kw THEN 1 + countFrom(s, kw, i + Len(kw))
  ELSE countFrom(s, kw, i + 1)

RECURSIVE keywordScore(_, _)
\* keywords.reduce((sum, kw) => sum + matches, 0)
keywordScore(lower, keywords) ==
  IF keywords = <<>> THEN 0
  ELSE countFrom(lower, Head(keywords), 1) + keywordScore(lower, Tail(keywords))

RECURSIVE bestCategoryFrom_lastOnTie(_, _, _, _)
\* the scoring loop with `score >= bestScore`: the later category wins a tie
bestCategoryFrom_lastOnTie(lower, k, bestCategory, bestScore) ==
  IF k > Len(CATEGORY_KEYWORDS) THEN bestCategory
  ELSE LET score == keywordScore(lower, CATEGORY_KEYWORDS[k].keywords)
       IN  IF score >= bestScore /\ score > 0
           THEN bestCategoryFrom_lastOnTie(lower, k + 1, CATEGORY_KEYWORDS[k].category, score)
           ELSE bestCategoryFrom_lastOnTie(lower, k + 1, bestCategory, bestScore)

RECURSIVE bestCategoryFrom(_, _, _, _)
\* the scoring loop of detectCategory from table entry k on
bestCategoryFrom(lower, k, bestCategory, bestScore) ==
  IF k > Len(CATEGORY_KEYWORDS) THEN bestCategory
  ELSE LET score == keywordScore(lower, CATEGORY_KEYWORDS[k].keywords)
       IN  IF score > bestScore
           THEN bestCategoryFrom(lower, k + 1, CATEGORY_KEYWORDS[k].category, score)
           ELSE bestCategoryFrom(lower, k + 1, bestCategory, bestScore)

\* the entries of TITLE_CATEGORY_OVERRIDES a title matches, by table position
titleOverrides(sectionTitle) ==
  {k \in 1..Len(TITLE_CATEGORY_OVERRIDES) :
     anyWord(toLowerCase(sectionTitle), TITLE_CATEGORY_OVERRIDES[k].patterns)}

Min(S) == CHOOSE x \in S : \A y \in S : x <= y

\* detectCategory of the first revision (src/src/index.js): the title is not looked at
detectCategory_contentOnly(content, sectionTitle) ==
  bestCategoryFrom(toLowerCase(content), 1, "conventions", 0)

\* detectCategory with the last matching entry of the override table winning
detectCategory_lastOverride(content, sectionTitle) ==
  IF sectionTitle # "" /\ titleOverrides(sectionTitle) # {}
  THEN TITLE_CATEGORY_OVERRIDES[CHOOSE k \in titleOverrides(sectionTitle) :
                                  \A j \in titleOverrides(sectionTitle) : j <= k].category
  ELSE bestCategoryFrom(toLowerCase(content), 1, "conventions", 0)

detectCategory(content, sectionTitle) ==
  IF sectionTitle # "" /\ titleOverrides(sectionTitle) # {}
  THEN TITLE_CATEGORY_OVERRIDES[Min(titleOverrides(sectionTitle))].category
  ELSE bestCategoryFrom(toLowerCase(content), 1, "conventions", 0)

\* first type of the table one of whose signals the lower-case content includes
detectType(content) ==
  LET lower == toLowerCase(content)
      hits == {k \in 1..Len(TYPE_SIGNALS) : anyWord(lower, TYPE_SIGNALS[k].signals)}
  IN  IF hits = {} THEN "convention" ELSE TYPE_SIGNALS[Min(hits)].type

techTerms == <<"app-router", "pages-router", "server-component", "client-component",
               "middleware", "api-route", "server-action", "ssr", "ssg", "isr",
               "monorepo", "workspace", "turbo", "pnpm",
               "migration", "schema", "seed",
               "dark-mode", "responsive", "a11y", "accessibility">>

\* term.replace('-', ' '): the first - only
replaceFirstDash(term) ==
  LET at == {i \in 1..Len(term) : CharAt(term, i) = "-"}
  IN  IF at = {} THEN term
      ELSE SubSeq(term, 1, Min(at) - 1) \o " " \o SubSeq(term, Min(at) + 1, Len(term))

RECURSIVE addAll(_, _)
\* Set.prototype.add of each item in order: insertion order, a present item stays put
addAll(tags, items) ==
  IF items = <<>> THEN tags
  ELSE addAll(IF \E i \in 1..Len(tags) : tags[i] = Head(items) THEN tags
              ELSE Append(tags, Head(items)), Tail(items))

RECURSIVE stackNames(_)
stackNames(st) == IF st = <<>> THEN <<>> ELSE <<Head(st).name>> \o stackNames(Tail(st))

\* extractTags collecting into an array instead of a Set: nothing is suppressed
extractTags_noSet(content, st) ==
  LET lower == toLowerCase(content)
  IN  stackNames(st) \o SelectSeq(techTerms, LAMBDA term :
                          includes(lower, replaceFirstDash(term)) \/ includes(lower, term))

extractTags(content, st) ==
  LET lower == toLowerCase(content)
  IN  addAll(addAll(<<>>, stackNames(st)),
             SelectSeq(techTerms, LAMBDA term :
               includes(lower, replaceFirstDash(term)) \/ includes(lower, term)))

calculateConfidence(block) ==
  IF block.category = "ai-instructions" THEN "high"
  ELSE IF block.category = "conventions" \/ block.category = "architecture" THEN "high"
  ELSE IF block.priority <= 3 THEN "medium"
  ELSE "low"

\* String.prototype.substring(0, n)
substring0(s, n) == SubSeq(s, 1, IF Len(s) < n THEN Len(s) ELSE n)

RECURSIVE SkipChars(_, _, _)
\* the first position >= i of s whose character is not in set cs
SkipChars(s, i, cs) ==
  IF i > Len(s) THEN i
  ELSE IF CharAt(s, i) \in cs THEN SkipChars(s, i + 1, cs) ELSE i

\* the dash of the `${block.file} - ${block.category}` title (U+2014 in the source)
EmDash == "--"

generateTitle(block) ==
  IF block.section # "" /\ block.section # "preamble"
  \* block.section.replace(/^#+\s*/, '').substring(0, 100)
  THEN LET h == SkipChars(block.section, 1, {"#"})
           from == IF h = 1 THEN 1 ELSE SkipSpace(block.section, h)
       IN  substring0(SubSeq(block.section, from, Len(block.section)), 100)
  ELSE LET nonEmpty == SelectSeq(splitLines(block.content), LAMBDA l : Len(trim(l)) > 0)
       IN  IF nonEmpty # <<>>
           \* firstLine.replace(/^[#*\-\s]+/, '').substring(0, 100)
           THEN LET firstLine == Head(nonEmpty)
                    from == SkipChars(firstLine, 1, {"#", "*", "-", " ", "\t", "\n", "\r"})
                IN  substring0(SubSeq(firstLine, from, Len(firstLine)), 100)
           ELSE block.file \o " " \o EmDash \o " " \o block.category

WordChars == "abcdefghijklmnopqrstuvwxyzABCDEFGHIJKLMNOPQRSTUVWXYZ0123456789_"

\* content.match(/```[\w]*\n([\s\S]*?)```/): <<the first group, trimmed>>, or <<>> for null
extractCodeExample(content) ==
  LET wordSet == {CharAt(WordChars, i) : i \in 1..Len(WordChars)}
      bodyAt(p) == SkipChars(content, p + 3, wordSet) + 1
      closes(p) == {r \in bodyAt(p)..Len(content) : At(content, r, CodeFence)}
      opens == {p \in 1..Len(content) :
                  /\ At(content, p, CodeFence)
                  /\ CharAt(content, bodyAt(p) - 1) = "\n"
                  /\ closes(p) # {}}
  IN  IF opens = {} THEN <<>>
      ELSE <<trim(SubSeq(content, bodyAt(Min(opens)), Min(closes(Min(opens))) - 1))>>

\* createHash('sha256').update(input).digest('hex').substring(0, 12), kept as the
\* digest's argument: two ids are equal exactly when their arguments are
sha256Hex12(input) == [sha256Prefix |-> input]

RECURSIVE stackStrings(_)
\* stack.map(s => s.version ? `${s.name}@${s.version}` : s.name)
stackStrings(st) ==
  IF st = <<>> THEN <<>>
  ELSE <<IF Head(st).version # "" THEN Head(st).name \o "@" \o Head(st).version
         ELSE Head(st).name>> \o stackStrings(Tail(st))

\* the body of classifyFragments' loop: the fragment pushed for one block
classifyBlock(block, st, info) ==
  [id          |-> sha256Hex12(info.url \o ":" \o block.file \o ":" \o ToString(block.lineStart)),
   stack       |-> stackStrings(st),
   category    |-> detectCategory(block.content, block.section),
   type        |-> detectType(block.content),
   title       |-> generateTitle(block),
   description |-> substring0(block.content, 500),
   fullContent |-> block.content,
   example     |-> extractCodeExample(block.content),
   source      |-> [repo |-> info.owner \o "/" \o info.name,
                    file |-> block.file,
                    line |-> block.lineStart,
                    url  |-> IF info.url # ""
                             THEN info.url \o "/blob/main/" \o block.file \o "#L"
                                    \o ToString(block.lineStart)
                             ELSE ""],
   confidence  |-> calculateConfidence(block),
   tags        |-> extractTags(block.content, st)]

RECURSIVE classifyFragments_lastFirst(_, _, _)
\* classifyFragments putting each fragment in front of the earlier ones
classifyFragments_lastFirst(rawBlocks, st, info) ==
  IF rawBlocks = <<>> THEN <<>>
  ELSE classifyFragments_lastFirst(Tail(rawBlocks), st, info)
         \o <<classifyBlock(Head(rawBlocks), st, info)>>

\* classifyFragments with the id taken from the block's position in the list instead of
\* its starting line
classifyFragments_idByPosition(rawBlocks, st, info) ==
  [i \in 1..Len(rawBlocks) |->
     [classifyBlock(rawBlocks[i], st, info) EXCEPT
        !.id = sha256Hex12(info.url \o ":" \o rawBlocks[i].file \o ":" \o ToString(i))]]

RECURSIVE classifyFragments(_, _, _)
classifyFragments(rawBlocks, st, info) ==
  IF rawBlocks = <<>> THEN <<>>
  ELSE <<classifyBlock(Head(rawBlocks), st, info)>> \o classifyFragments(Tail(rawBlocks), st, info)

-----------------------------------------------------------------------------
(* classify.js, the revision with type scores and confidence by file name         *)
(* (src/unnamed/part_003). Its tables and its detectCategory are those above.     *)

RECURSIVE signalScore(_, _)
\* signals.reduce((sum, signal) => sum + (content.match(new RegExp(signal, 'gi')) || []).length, 0):
\* every signal is a literal, matched in any case
signalScore(content, signals) ==
  IF signals = {} THEN 0
  ELSE LET signal == CHOOSE x \in signals : TRUE
       IN  countFrom(toLowerCase(content), toLowerCase(signal), 1)
             + signalScore(content, signals \ {signal})

RECURSIVE bestTypeFrom(_, _, _, _)
\* the loop over Object.entries(scores) from table entry k on
bestTypeFrom(content, k, bestType, bestScore) ==
  IF k > Len(TYPE_SIGNALS) THEN bestType
  ELSE LET score == signalScore(content, TYPE_SIGNALS[k].signals)
       IN  IF score > bestScore
           THEN bestTypeFrom(content, k + 1, TYPE_SIGNALS[k].type, score)
           ELSE bestTypeFrom(content, k + 1, bestType, bestScore)

\* detectType of part_003: the highest score wins, the earlier type on a tie
detectTypeByScore(content) == bestTypeFrom(content, 1, "convention", 0)

\* detectConfidence of part_003: by the name of the file
detectConfidence(block) ==
  IF block.file \in {"CLAUDE.md", ".cursorrules", ".clinerules", "AGENTS.md", "CONVENTIONS.md"}
  THEN "high"
  ELSE IF includes(block.file, "eslint") \/ includes(block.file, "prettier") THEN "high"
  ELSE "medium"

\* the . of a regular expression: one character that is no line terminator
IsDot(c) == c # "" /\ c \notin {"\n", "\r"}

\* /a.?b/ occurs in s
matchOptional(s, a, b) ==
  \E i \in 1..Len(s) :
    /\ At(s, i, a)
    /\ \/ At(s, i + Len(a), b)
       \/ (IsDot(CharAt(s, i + Len(a))) /\ At(s, i + Len(a) + 1, b))

\* /a.b/ occurs in s
matchDot(s, a, b) ==
  \E i \in 1..Len(s) : At(s, i, a) /\ IsDot(CharAt(s, i + Len(a))) /\ At(s, i + Len(a) + 1, b)

\* techPatterns of part_003, each with the test of its pattern on the lower-case content
techPatternTags(content) ==
  LET s == toLowerCase(content)
  IN  <<[tag |-> "app-router",       hit |-> matchOptional(s, "app", "router")],
        [tag |-> "pages-router",     hit |-> matchOptional(s, "pages", "router")],
        [tag |-> "server-component", hit |-> matchOptional(s, "server", "component")],
        [tag |-> "client-component", hit |-> matchOptional(s, "client", "component")
                                               \/ includes(s, "'use client'")],
        [tag |-> "middleware",       hit |-> includes(s, "middleware")],
        [tag |-> "api-route",        hit |-> matchOptional(s, "api", "route")],
        [tag |-> "migration",        hit |-> includes(s, "migration")],
        [tag |-> "schema",           hit |-> includes(s, "schema")],
        [tag |-> "docker",           hit |-> includes(s, "docker")],
        [tag |-> "github-actions",   hit |-> matchOptional(s, "github", "action")],
        [tag |-> "rls",              hit |-> includes(s, "rls")
                                               \/ \E i \in 1..Len(s) :
                                                    /\ At(s, i, "row") /\ IsDot(CharAt(s, i + 3))
                                                    /\ At(s, i + 4, "level")
                                                    /\ IsDot(CharAt(s, i + 9))
                                                    /\ At(s, i + 10, "security")],
        [tag |-> "capacitor",        hit |-> includes(s, "capacitor")],
        [tag |-> "pwa",              hit |-> includes(s, "pwa") \/ matchDot(s, "service", "worker")
                                               \/ includes(s, "serwist")]>>

RECURSIVE pushTags(_, _)
\* if (pattern.test(content) && !tags.includes(tag)) tags.push(tag), pattern by pattern
pushTags(tags, patterns) ==
  IF patterns = <<>> THEN tags
  ELSE pushTags(IF Head(patterns).hit /\ ~\E i \in 1..Len(tags) : tags[i] = Head(patterns).tag
                THEN Append(tags, Head(patterns).tag) ELSE tags,
                Tail(patterns))

\* extractTags of part_003: the stack names as they come, then the pattern tags
extractTagsByPattern(content, st) == pushTags(stackNames(st), techPatternTags(content))

\* the value of block.line: the blocks of extract.js have lineStart and lineEnd, no line,
\* and `${undefined}` is the text "undefined"
undefined == "undefined"

\* the callback of blocks.map in classifyFragments of part_003
classifyBlockPart003(block, st, info) ==
  [id          |-> sha256Hex12(info.owner \o "/" \o info.name \o ":" \o block.file \o ":"
                                 \o undefined),
   stack       |-> stackStrings(st),
   category    |-> detectCategory(block.content, block.section),
   type        |-> detectTypeByScore(block.content),
   title       |-> IF block.section # "" THEN block.section ELSE block.file,
   description |-> substring0(block.content, 500),
   example     |-> extractCodeExample(block.content),
   source      |-> [repo |-> info.owner \o "/" \o info.name,
                    file |-> block.file,
                    line |-> undefined,
                    url  |-> info.url \o "/blob/main/" \o block.file \o "#L" \o undefined],
   confidence  |-> detectConfidence(block),
   tags        |-> extractTagsByPattern(block.content, st)]

\* classifyFragments of part_003: blocks.map(block => ...)
classifyFragmentsPart003(blocks_, st, info) ==
  [i \in 1..Len(blocks_) |-> classifyBlockPart003(blocks_[i], st, info)]

-----------------------------------------------------------------------------
(* The inputs: directory trees, stacks and repository identities *)

\* texts a generated file is put together from, joined by line breaks
ChunkPool == {
  "",
  "Notes",
  "## Rules\nAlways use early returns.",
  "## Rules\nAlways use early returns, and keep every function small.",
  "You must validate every input\nbefore saving it to disk, always.",
  "Project notes\nYou must run the linter\nbefore every single commit to main.",
  "## Background\nThe quick brown fox jumps over a lazy dog many times a day.",
  "Copyright 2024 Example Corp. MIT License.",
  "{ \"semi\": false }",
  "Copyright 2024 Example Corp.\nYou must keep this notice\nin every copy of the file.",
  "# Changelog\n- Fixed the login error\n- Added rule checks for every test" }

\* section headings, one for each alternative of the session-log pattern and near misses
TitlePool == {
  "## Session 2024-05-01", "## Seneste  Session", "## Tidligere sessions", "# CHANGELOG",
  "## Version history", "### v1.2 release", "## Notes from the last session",
  "## Full changelog", "## v2 plans", "## Verification", "## Auth roles" }

\* section bodies, each with one kind of signal (or none), all 50 characters or longer
BodyPool == {
  "Every handler should return early when the input is empty.",
  "Man skal validere alle felter, gerne med det samme i koden.",
  "This page describes the naming convention used by the team.",
  "Dette er et vigtigt punkt som alle i teamet kan huske på nu.",
  "The loader is an async step that runs once the page is ready.",
  "Run every unit check before you push, and fix each lint hit.",
  "Build it with:\n" \o CodeFence \o "sh\nnpm run build\n" \o CodeFence \o "\nand wait a minute.",
  "The header is **not optional** in any of the public pages here.",
  "Before a merge:\n- [x] the branch is green\n- [ ] the notes are up to date",
  "Things to keep in mind here:\n  * keep it short\n  * keep it plain",
  WarningSign \o " Think twice before you push to the main branch on Friday.",
  "The quick brown fox jumps over a lazy dog many times a day.",
  "Copyright 2024 Example Corp. You must keep this notice in every copy.",
  "You may use it under the Apache License, but never drop this notice." }

\* what every file of a tree of many files holds
DefaultContent == "Notes\n## Rules\nAlways use early returns, and keep every function small."

\* the well-known paths a tree of many files may hold
PathPool == <<"CLAUDE.md", "CONVENTIONS.md", "README.md", "SECURITY.md", ".eslintrc.json",
              ".prettierrc">>

File(content) == [kind |-> "file", readable |-> TRUE, content |-> content, names |-> <<>>]
Unreadable == [kind |-> "file", readable |-> FALSE, content |-> "", names |-> <<>>]
Dir(names) == [kind |-> "dir", readable |-> TRUE, content |-> "", names |-> names]
UnreadableDir == [kind |-> "dir", readable |-> FALSE, content |-> "", names |-> <<>>]
Other == [kind |-> "other", readable |-> TRUE, content |-> "", names |-> <<>>]

\* the tree of no entry
EmptyTree == [p \in {} |-> Other]

\* the texts made of n chunks
RECURSIVE ChunkTexts(_)
ChunkTexts(n) ==
  IF n = 1 THEN ChunkPool
  ELSE ChunkTexts(n - 1) \cup {t \o "\n" \o c : t \in ChunkTexts(n - 1), c \in ChunkPool}

\* one markdown or config file put together from chunks
ChunkTrees ==
  {(p :> File(t)) : p \in {"CONVENTIONS.md", ".prettierrc"}, t \in ChunkTexts(MaxChunks)}

\* one README.md: a short preamble, then one section with a title and a body
SectionTrees ==
  {("README.md" :> File("Notes\n" \o h \o "\n" \o b)) : h \in TitlePool, b \in BodyPool}

\* any one entry of the known-file table, as a file, an unreadable file or a directory
SingleTrees ==
  {(KNOWLEDGE_FILES[k].pattern :> e) :
     k \in 1..Len(KNOWLEDGE_FILES), e \in {File(DefaultContent), Unreadable, Dir(<<>>)}}

\* a documentation directory with directories down to four levels below it, listed by
\* readdir in an order that is not the alphabetical one; docs/a/b/c/d is added by DocsTrees
DeepDocs ==
  ("docs" :> Dir(<<"zeta.md", "a", ".hidden", "alpha.md">>))
     @@ ("docs/zeta.md" :> File(DefaultContent))
     @@ ("docs/alpha.md" :> File(DefaultContent))
     @@ ("docs/.hidden" :> Dir(<<"h.md">>))
     @@ ("docs/.hidden/h.md" :> File(DefaultContent))
     @@ ("docs/a" :> Dir(<<"one.md", "b">>))
     @@ ("docs/a/one.md" :> File(DefaultContent))
     @@ ("docs/a/b" :> Dir(<<"c", "two.txt">>))
     @@ ("docs/a/b/two.txt" :> File(DefaultContent))
     @@ ("docs/a/b/c" :> Dir(<<"three.md", "d">>))
     @@ ("docs/a/b/c/three.md" :> File(DefaultContent))

\* the documentation directories of the model
DocsTrees == {
  EmptyTree,
  ("docs" :> File(DefaultContent)),
  ("docs" :> UnreadableDir),
  ("docs" :> Dir(<<"guide.md", "logo.png", ".internal", "api">>))
     @@ ("docs/guide.md" :> File(DefaultContent))
     @@ ("docs/logo.png" :> File("PNG"))
     @@ ("docs/.internal" :> Dir(<<"secret.md">>))
     @@ ("docs/.internal/secret.md" :> File(DefaultContent))
     @@ ("docs/api" :> Dir(<<"README.TXT", "link">>))
     @@ ("docs/api/README.TXT" :> Unreadable)
     @@ ("docs/api/link" :> Other),
  ("docs" :> Dir(<<"guide.md", "private", "api">>))
     @@ ("docs/guide.md" :> File(DefaultContent))
     @@ ("docs/private" :> UnreadableDir)
     @@ ("docs/api" :> Dir(<<"intro.md">>))
     @@ ("docs/api/intro.md" :> File(DefaultContent)),
  DeepDocs @@ ("docs/a/b/c/d" :> Dir(<<"four.md">>))
           @@ ("docs/a/b/c/d/four.md" :> File(DefaultContent)),
  DeepDocs @@ ("docs/a/b/c/d" :> UnreadableDir) }

\* the trees that hold the paths of set ps, each as a file, an unreadable file or a directory
RECURSIVE TreesOver(_)
TreesOver(ps) ==
  IF ps = {} THEN {EmptyTree}
  ELSE LET p == CHOOSE q \in ps : TRUE
       IN  {(p :> e) @@ t : e \in {File(DefaultContent), Unreadable, Dir(<<>>)},
                            t \in TreesOver(ps \ {p})}

\* at most MaxPresent paths of PathPool, with or without a documentation directory
StructureTrees ==
  UNION {{t @@ d : t \in TreesOver(ps), d \in DocsTrees} :
           ps \in {qs \in SUBSET {PathPool[i] : i \in 1..Len(PathPool)} :
                     Cardinality(qs) <= MaxPresent}}

\* CONVENTIONS.md alone, holding one chunk
ScenarioTrees == {("CONVENTIONS.md" :> File(t)) : t \in ChunkPool}

Trees == ChunkTrees \cup SectionTrees \cup SingleTrees \cup StructureTrees

\* section headings for classification: titles that match one, two or no override pattern
ClassTitlePool == {
  "## Deployment", "## Auth rules", "## Login button", "## Auth roles", "## Role sync",
  "## Login flow", "## Overview" }

\* section bodies for classification: keywords of several categories and types
ClassBodyPool == {
  "Every login must check the auth token and the jwt session.",
  "You must always validate input and never skip it; it is required.",
  "The loader is an async step that runs once the page is ready.",
  "Never push to main, and avoid a rebase of a shared branch.",
  "We prefer this approach: the strategy is an example of a pattern.",
  "Build it with:\n" \o CodeFence \o "sh\nnpm run build\n" \o CodeFence \o "\nand wait a minute." }

\* a short preamble, then one section
OneSectionTexts == {"Notes\n" \o h \o "\n" \o b : h \in ClassTitlePool, b \in ClassBodyPool}

\* a short preamble, then two sections
TwoSectionTexts ==
  {"Notes\n## Auth roles\nEvery login must check the auth token and the jwt session.\n"
     \o h \o "\n" \o b :
       h \in ClassTitlePool,
       b \in {"You must always validate input and never skip it; it is required.",
              "The loader is an async step that runs once the page is ready."}}

\* a heading of more than 100 characters
LongHeading ==
  "## How we name the files and the folders of every package, and why these names matter "
    \o "to the people who join the team later on"

\* a preamble of three lines that is kept, then a section under a short or a long heading
LongTitleTexts ==
  {"- Always validate the input.\n- Never skip a check.\n* Reviews are required.\n"
     \o h \o "\nYou must always validate input and never skip it; it is required." :
       h \in {"## Overview", LongHeading}}

\* repositories for classification: one file of each kind of source, holding one or two
\* sections, and repositories of several files
ClassifyTrees ==
  {(p :> File(t)) : p \in {"CLAUDE.md", "ARCHITECTURE.md", "CONTRIBUTING.md", "README.md",
                           ".eslintrc.json", "tsconfig.json"},
                    t \in OneSectionTexts}
  \cup {("docs" :> Dir(<<"guide.md">>)) @@ ("docs/guide.md" :> File(t)) : t \in OneSectionTexts}
  \cup {(p :> File(t)) : p \in {"CLAUDE.md", "README.md"}, t \in TwoSectionTexts}
  \cup {("CLAUDE.md" :> File(t)) @@ ("README.md" :> File(t)) @@ (".eslintrc.json" :> File(t))
          @@ ("docs" :> Dir(<<"guide.md">>)) @@ ("docs/guide.md" :> File(t)) :
            t \in TwoSectionTexts}
  \cup {(p :> File(t)) : p \in {"CLAUDE.md", "README.md"}, t \in LongTitleTexts}

\* repositories whose text names technologies, two of them also in the stack
TagTrees ==
  {("CLAUDE.md" :> File("Notes\n## Overview\n" \o b)) :
     b \in {"You must keep the turbo cache and the capacitor shell on one Schema; add a migration.",
            "Always run the migration before the App Router loads the schema in the middleware.",
            "The loader is an async step that runs once the page is ready."}}

\* detectStack's result for a repository with turbo, @capacitor/core and next
TagStack == <<[name |-> "turbo", version |-> "2.0.0", category |-> "build"],
              [name |-> "capacitor", version |-> "", category |-> "mobile"],
              [name |-> "next.js", version |-> "16", category |-> "framework"]>>

\* getRepoInfo: a repository with a GitHub remote, and a local one without remote
InfoPool == {[owner |-> "acme", name |-> "app", url |-> "https://github.com/acme/app"],
             [owner |-> "local", name |-> "repo", url |-> ""]}

StackPool == {<<>>, <<[name |-> "next.js", version |-> "16", category |-> "framework"],
                      [name |-> "tailwind", version |-> "", category |-> "ui"]>>}

RepoInfoPool == {[owner |-> "acme", name |-> "app", url |-> "https://github.com/acme/app"]}

-----------------------------------------------------------------------------
(* processRepo: the pipeline of one repository *)

\* the state processRepo starts in, on the tree, stack and identity given
Start(tree, st, info) ==
  /\ fs = tree
  /\ stack = st
  /\ repoInfo = info
  /\ pc = "discover"
  /\ found = <<>>
  /\ fileIdx = 1
  /\ blocks = <<>>
  /\ candidates = <<>>
  /\ warnings = <<>>
  /\ fragments = <<>>
  /\ repos = <<>>
  /\ repoIdx = 1
  /\ returned = <<>>
  /\ allFragments = <<>>
  /\ located = <<>>

\* const files = await discoverFiles(repoPath); if (files.length === 0) return []
Discover ==
  /\ pc = "discover"
  /\ found' = discoverFiles(fs)
  /\ pc' = IF Len(found') = 0 THEN "done" ELSE "extract"
  /\ UNCHANGED <<fs, stack, repoInfo, fileIdx, blocks, candidates, warnings, fragments>>
  /\ UNCHANGED mainVars

\* one turn of extractKnowledge's loop: a config file becomes one block
ExtractConfigFile ==
  /\ pc = "extract" /\ fileIdx <= Len(found)
  /\ LET file == found[fileIdx]
     IN  /\ fs[file.relativePath].readable
         /\ isConfigCategory(file.category)
         /\ blocks' = blocks \o extractFile(fs, file)
  /\ fileIdx' = fileIdx + 1
  /\ UNCHANGED <<fs, stack, repoInfo, pc, found, candidates, warnings, fragments>>
  /\ UNCHANGED mainVars

\* one turn of extractKnowledge's loop: a markdown/text file is split by sections
ExtractSectionFile ==
  /\ pc = "extract" /\ fileIdx <= Len(found)
  /\ LET file == found[fileIdx]
     IN  /\ fs[file.relativePath].readable
         /\ ~isConfigCategory(file.category)
         /\ blocks' = blocks \o extractFile(fs, file)
         /\ candidates' = candidates \o sectionCandidates(fs[file.relativePath].content, file)
  /\ fileIdx' = fileIdx + 1
  /\ UNCHANGED <<fs, stack, repoInfo, pc, found, warnings, fragments>>
  /\ UNCHANGED mainVars

\* one turn of extractKnowledge's loop: readFile rejects, the catch logs a warning
ExtractUnreadableFile ==
  /\ pc = "extract" /\ fileIdx <= Len(found)
  /\ LET file == found[fileIdx]
     IN  /\ ~fs[file.relativePath].readable
         /\ blocks' = blocks \o extractFile(fs, file)
         /\ warnings' = Append(warnings, file.relativePath)
  /\ fileIdx' = fileIdx + 1
  /\ UNCHANGED <<fs, stack, repoInfo, pc, found, candidates, fragments>>
  /\ UNCHANGED mainVars

\* extractKnowledge returns; const fragments = classifyFragments(rawBlocks, stack, repoInfo)
Classify ==
  /\ pc = "extract" /\ fileIdx > Len(found)
  /\ fragments' = classifyFragments(blocks, stack, repoInfo)
  /\ pc' = "done"
  /\ UNCHANGED <<fs, stack, repoInfo, found, fileIdx, blocks, candidates, warnings>>
  /\ UNCHANGED mainVars

\* extractKnowledge returns its blocks (the pipeline stopped after step 4)
ReturnBlocks ==
  /\ pc = "extract" /\ fileIdx > Len(found)
  /\ pc' = "extracted"
  /\ UNCHANGED <<fs, stack, repoInfo, found, fileIdx, blocks, candidates, warnings, fragments>>
  /\ UNCHANGED mainVars

\* const fragments = classifyFragments(blocks, stack, repoInfo) with the classify.js of
\* part_003
ClassifyPart003 ==
  /\ pc = "extract" /\ fileIdx > Len(found)
  /\ fragments' = classifyFragmentsPart003(blocks, stack, repoInfo)
  /\ pc' = "done.part_003"
  /\ UNCHANGED <<fs, stack, repoInfo, found, fileIdx, blocks, candidates, warnings>>
  /\ UNCHANGED mainVars

\* The whole pipeline, on trees of one file and one-section README files.
Init == \E tree \in ScenarioTrees \cup SingleTrees \cup SectionTrees :
          \E st \in StackPool : \E info \in RepoInfoPool : Start(tree, st, info)

Next ==
  \/ Discover
  \/ ExtractConfigFile
  \/ ExtractSectionFile
  \/ ExtractUnreadableFile
  \/ Classify

Spec == Init /\ [][Next]_vars

\* The whole pipeline with either revision of classify.js, on the repositories for
\* classification.
InitBuilds ==
  \/ \E tree \in ClassifyTrees : \E info \in InfoPool :
       Start(tree, CHOOSE st \in StackPool : st # <<>>, info)
  \/ \E tree \in TagTrees : \E info \in InfoPool : Start(tree, TagStack, info)

NextBuilds ==
  \/ Discover
  \/ ExtractConfigFile
  \/ ExtractSectionFile
  \/ Classify
  \/ ClassifyPart003

SpecBuilds == InitBuilds /\ [][NextBuilds]_vars

\* Discovery and extraction (steps 3 and 4 of processRepo) on every tree of the model.
InitExtract == \E tree \in Trees : Start(tree, <<>>, CHOOSE info \in RepoInfoPool : TRUE)

NextExtract ==
  \/ Discover
  \/ ExtractConfigFile
  \/ ExtractSectionFile
  \/ ExtractUnreadableFile
  \/ ReturnBlocks

SpecExtract == InitExtract /\ [][NextExtract]_vars

-----------------------------------------------------------------------------
(* main: the loop over the repositories of a batch *)

\* CLAUDE.md of one repository at several revisions: the first section's body is one
\* line, five lines or too short to be kept, the second section's body is one of two
RevisionTexts ==
  {"Notes\n## Auth roles\n" \o b1 \o "\n## Deployment\n" \o b2 :
     b1 \in {"Every login must check the auth token and the jwt session.",
             "Build it with:\n" \o CodeFence \o "sh\nnpm run build\n" \o CodeFence
               \o "\nand wait a minute.",
             "Todo."},
     b2 \in {"You must always validate input and never skip it; it is required.",
             "The loader is an async step that runs once the page is ready."}}

\* [\w.-]
IdChars ==
  {"a", "b", "c", "d", "e", "f", "g", "h", "i", "j", "k", "l", "m", "n", "o", "p", "q", "r",
   "s", "t", "u", "v", "w", "x", "y", "z", "A", "B", "C", "D", "E", "F", "G", "H", "I", "J",
   "K", "L", "M", "N", "O", "P", "Q", "R", "S", "T", "U", "V", "W", "X", "Y", "Z", "0", "1",
   "2", "3", "4", "5", "6", "7", "8", "9", "_", ".", "-"}

\* [\w.-]+ matches the whole of s
OnlyIdChars(s) == Len(s) >= 1 /\ \A i \in 1..Len(s) : CharAt(s, i) \in IdChars

\* the positions p of s with s = owner "/" name, both of [\w.-]+
ShortSplits(s) ==
  {p \in 2..(Len(s) - 1) :
     /\ CharAt(s, p) = "/"
     /\ OnlyIdChars(SubSeq(s, 1, p - 1))
     /\ OnlyIdChars(SubSeq(s, p + 1, Len(s)))}

\* ([\w.-]+?)(?:\.git)?$ : the lazy name gives a trailing .git to the optional group
withoutDotGit(name) ==
  IF endsWith(name, ".git") /\ Len(name) > 4 THEN SubSeq(name, 1, Len(name) - 4) ELSE name

\* the positions where /github\.com[/:]([\w.-]+)\/([\w.-]+?)(?:\.git)?$/ matches in s
UrlMatches(s) ==
  {i \in 1..(Len(s) - 10) :
     /\ SubSeq(s, i, i + 9) = "github.com"
     /\ CharAt(s, i + 10) \in {"/", ":"}
     /\ ShortSplits(SubSeq(s, i + 11, Len(s))) # {}}

\* parseRepoIdentifier's null
noIdentifier == [ok |-> FALSE, owner |-> "", name |-> ""]

\* parseRepoIdentifier(repoUrl): a GitHub URL first, then the owner/repo shorthand
parseRepoIdentifier(repoUrl) ==
  IF UrlMatches(repoUrl) # {}
  THEN LET i == CHOOSE i \in UrlMatches(repoUrl) : \A j \in UrlMatches(repoUrl) : i <= j
           rest == SubSeq(repoUrl, i + 11, Len(repoUrl))
           p == CHOOSE p \in ShortSplits(rest) : TRUE
       IN  [ok |-> TRUE, owner |-> SubSeq(rest, 1, p - 1),
            name |-> withoutDotGit(SubSeq(rest, p + 1, Len(rest)))]
  ELSE IF ShortSplits(repoUrl) # {}
  THEN LET p == CHOOSE p \in ShortSplits(repoUrl) : TRUE
       IN  [ok |-> TRUE, owner |-> SubSeq(repoUrl, 1, p - 1),
            name |-> SubSeq(repoUrl, p + 1, Len(repoUrl))]
  ELSE noIdentifier

\* const looksLikeGitHub = repoInput.includes('github.com') || parseRepoIdentifier(repoInput)
looksLikeGitHub(repoInput) ==
  includes(repoInput, "github.com") \/ parseRepoIdentifier(repoInput).ok

\* const isLocal = isLocalRepo(repoInput) && !looksLikeGitHub, where isLocalRepo says
\* whether the input is the path of an existing directory
isLocal(repo) == repo.isDir /\ ~looksLikeGitHub(repo.input)

\* cloneRepo's info for the identifier parsed from the input
cloneInfo(parsed) ==
  [owner |-> parsed.owner, name |-> parsed.name,
   url |-> "https://github.com/" \o parsed.owner \o "/" \o parsed.name]

\* repoInfo = getRepoInfo(repoPath) of the directory, or cloneRepo's result.info
infoOf(repo) ==
  IF isLocal(repo) THEN repo.info ELSE cloneInfo(parseRepoIdentifier(repo.input))

\* step 1 of processRepo succeeds: the directory is used in place, or cloneRepo parses
\* the input and the clone succeeds
acquired(repo) ==
  isLocal(repo) \/ (parseRepoIdentifier(repo.input).ok /\ repo.cloneOk)

\* what processRepo finds for one line of the batch file: whether the repository can be
\* acquired and, if so, its tree, its stack and its identity
Repo(input, isDir, tree, st, info) ==
  [input |-> input, isDir |-> isDir, cloneOk |-> TRUE, tree |-> tree, stack |-> st,
   info |-> info]

\* a line of the batch file that cloneRepo cannot parse or clone
BrokenRepo ==
  [input |-> "not a repo", isDir |-> FALSE, cloneOk |-> FALSE, tree |-> EmptyTree,
   stack |-> <<>>,
   info |-> [owner |-> "", name |-> "", url |-> ""]]

\* one GitHub repository at six revisions, two local directories without a git remote
\* (getRepoInfo's catch branch: owner 'local', url ''), a checkout of a GitHub repository
\* under an absolute path that holds the host name, a relative directory whose path
\* reads as owner/repo, and a line that fails
RepoPool ==
  {Repo("acme/app", FALSE, ("CLAUDE.md" :> File(t)), <<>>,
        [owner |-> "acme", name |-> "app", url |-> "https://github.com/acme/app"]) :
     t \in RevisionTexts}
  \cup {Repo("/work/repo", TRUE,
             ("CLAUDE.md" :> File(DefaultContent)) @@ (".eslintrc.json" :> File("{ \"semi\": false }"))
               @@ ("docs" :> Dir(<<"guide.md", "api.md">>))
               @@ ("docs/guide.md" :> File(DefaultContent))
               @@ ("docs/api.md" :> File(DefaultContent)),
             CHOOSE st \in StackPool : st # <<>>,
             [owner |-> "local", name |-> "repo", url |-> ""])}
  \cup {Repo("/work/other", TRUE,
             ("CLAUDE.md" :> File("Notes\n## Auth roles\nEvery login must check the auth "
                                    \o "token and the jwt session.")),
             <<>>,
             [owner |-> "local", name |-> "other", url |-> ""])}
  \cup {Repo("/home/dev/go/src/github.com/acme/app", TRUE,
             ("CLAUDE.md" :> File(DefaultContent)), <<>>,
             [owner |-> "acme", name |-> "app", url |-> "https://github.com/acme/app"])}
  \cup {Repo("tools/lint", TRUE, ("CLAUDE.md" :> File(DefaultContent)), <<>>,
             [owner |-> "local", name |-> "lint", url |-> ""])}
  \cup {BrokenRepo}

\* the batches: every two repositories, and every three with a broken one in the middle
Batches ==
  {<<a, b>> : a \in RepoPool, b \in RepoPool}
  \cup {<<a, BrokenRepo, b>> : a \in RepoPool, b \in RepoPool}

\* main has read the batch file and enters its loop
InitBatch ==
  /\ repos \in Batches
  /\ repoIdx = 1
  /\ returned = <<>>
  /\ allFragments = <<>>
  /\ located = <<>>
  /\ pc = "acquire"
  /\ fs = EmptyTree
  /\ stack = <<>>
  /\ repoInfo = [owner |-> "", name |-> "", url |-> ""]
  /\ found = <<>>
  /\ fileIdx = 1
  /\ blocks = <<>>
  /\ candidates = <<>>
  /\ warnings = <<>>
  /\ fragments = <<>>

\* processRepo(repo), steps 1 and 2: the repository is located or cloned and its stack
\* detected
Acquire ==
  /\ pc = "acquire"
  /\ acquired(repos[repoIdx])
  /\ located' = Append(located, IF isLocal(repos[repoIdx]) THEN "local" ELSE "clone")
  /\ fs' = repos[repoIdx].tree
  /\ stack' = repos[repoIdx].stack
  /\ repoInfo' = infoOf(repos[repoIdx])
  /\ pc' = "discover"
  /\ UNCHANGED <<found, fileIdx, blocks, candidates, warnings, fragments>>
  /\ UNCHANGED <<repos, repoIdx, returned, allFragments>>

\* processRepo(repo), step 1 throws, with the exception leaving main
AcquireFails_uncaught ==
  /\ pc = "acquire"
  /\ ~acquired(repos[repoIdx])
  /\ located' = Append(located, "clone")
  /\ pc' = "end"
  /\ UNCHANGED <<fs, stack, repoInfo, found, fileIdx, blocks, candidates, warnings, fragments>>
  /\ UNCHANGED <<repos, repoIdx, returned, allFragments>>

\* processRepo(repo), step 1 throws: catch (error) { console.error(...); return [] }
AcquireFails ==
  /\ pc = "acquire"
  /\ ~acquired(repos[repoIdx])
  /\ located' = Append(located, "clone")
  /\ fragments' = <<>>
  /\ pc' = "done"
  /\ UNCHANGED <<fs, stack, repoInfo, found, fileIdx, blocks, candidates, warnings>>
  /\ UNCHANGED <<repos, repoIdx, returned, allFragments>>

\* the loop of main with extractKnowledge's blocks kept from one call to the next
Collect_blocksKept ==
  /\ pc = "done"
  /\ returned' = Append(returned, fragments)
  /\ allFragments' = allFragments \o fragments
  /\ repoIdx' = repoIdx + 1
  /\ pc' = IF repoIdx < Len(repos) THEN "acquire" ELSE "end"
  /\ found' = <<>>
  /\ fileIdx' = 1
  /\ candidates' = <<>>
  /\ warnings' = <<>>
  /\ fragments' = <<>>
  /\ UNCHANGED <<fs, stack, repoInfo, repos, blocks, located>>

\* const fragments = await processRepo(repo); allFragments = allFragments.concat(fragments):
\* processRepo has returned, its locals are gone, and the loop goes on to the next
\* repository or ends
Collect ==
  /\ pc = "done"
  /\ returned' = Append(returned, fragments)
  /\ allFragments' = allFragments \o fragments
  /\ repoIdx' = repoIdx + 1
  /\ pc' = IF repoIdx < Len(repos) THEN "acquire" ELSE "end"
  /\ found' = <<>>
  /\ fileIdx' = 1
  /\ blocks' = <<>>
  /\ candidates' = <<>>
  /\ warnings' = <<>>
  /\ fragments' = <<>>
  /\ UNCHANGED <<fs, stack, repoInfo, repos, located>>

NextBatch ==
  \/ Acquire
  \/ AcquireFails
  \/ Discover
  \/ ExtractConfigFile
  \/ ExtractSectionFile
  \/ Classify
  \/ Collect

SpecBatch == InitBatch /\ [][NextBatch]_vars

-----------------------------------------------------------------------------
\* Properties of the pipeline.

\* the non-blank lines of a text, counted on the text itself
NonBlankCount(text) ==
  LET ls == splitLines(text)
  IN  Cardinality({i \in 1..Len(ls) : trim(ls[i]) # ""})

\* the lines of a text: one more than its line feeds
LineCount(text) == 1 + Cardinality({i \in 1..Len(text) : CharAt(text, i) = "\n"})

\* the first line of a text
FirstLine(text) == Head(splitLines(text))

\* the block is one of a file that extraction splits by section
IsSectionBlock(b) == b.category \notin {"linting", "typescript", "formatting"}

\* the content is licence text: it names the MIT or the Apache licence, or starts with "copyright"
IsLegalText(content) ==
  LET lower == toLowerCase(content)
  IN  \/ includes(lower, "mit license")
      \/ includes(lower, "apache license")
      \/ startsWith(lower, "copyright")

\* the checks a section passes before its signals are looked at
PassesEarlierChecks(c) ==
  /\ Len(c.content) >= 50
  /\ ~(c.section = "preamble" /\ NonBlankCount(c.content) < 3)
  /\ ~IsLegalText(c.content)
  /\ ~isSessionLogTitle(c.section)

\* ---- C1 ----
Scenario1Tree == ("CONVENTIONS.md" :> File("## Rules\nAlways use early returns."))

\* the block's content holds "always" and none of the anti-pattern words
AlwaysRule(content) ==
  LET lower == toLowerCase(content)
  IN  /\ includes(lower, "always")
      /\ ~anyWord(lower, {"never", "don't", "do not", "avoid", "anti-pattern", "bad practice",
                          "deprecated"})

\* C1 as stated: the pipeline run on a repository whose CONVENTIONS.md holds the heading
\* "## Rules" and the line "Always use early returns." ends with exactly one fragment, of
\* category conventions, type rule and confidence high.
C1_ScenarioOneFragment ==
  (pc = "done" /\ fs = Scenario1Tree) =>
    /\ Len(fragments) = 1
    /\ fragments[1].category = "conventions"
    /\ fragments[1].type = "rule"
    /\ fragments[1].confidence = "high"

\* C1, amended: the pipeline run on that repository ends with no fragment (the only
\* section of the file is shorter than 50 characters); and every block that extraction
\* emits from CONVENTIONS.md under the section title "Rules", whose content holds
\* "always" and no anti-pattern word, becomes a fragment of category conventions,
\* type rule and confidence high.
C1_ScenarioNoFragment ==
  /\ (pc = "done" /\ fs = Scenario1Tree) => fragments = <<>>
  /\ pc = "done" =>
       /\ Len(fragments) = Len(blocks)
       /\ \A i \in 1..Len(blocks) :
            (/\ blocks[i].file = "CONVENTIONS.md"
             /\ blocks[i].section = "Rules"
             /\ AlwaysRule(blocks[i].content)) =>
              /\ fragments[i].category = "conventions"
              /\ fragments[i].type = "rule"
              /\ fragments[i].confidence = "high"

\* the scenario's file was discovered and split, its one section dropped, the run ended
C1_ScenarioRan ==
  /\ pc = "done" /\ fs = Scenario1Tree
  /\ Len(found) = 1 /\ found[1].relativePath = "CONVENTIONS.md"
  /\ Len(candidates) = 1 /\ ~candidates[1].kept
  /\ fragments = <<>>

\* ---- C2 ----
\* C2: a heading line starts a new section whose title is the heading's text, also on
\* the first line of the file: an emitted block of a section-split file whose content
\* begins with a heading line has that heading's text as its section title (so never
\* "preamble").
C2_HeadingStartsSection ==
  \A i \in 1..Len(blocks) :
    LET hm == headingMatch(FirstLine(blocks[i].content))
    IN  (IsSectionBlock(blocks[i]) /\ hm.matched) => blocks[i].section = trim(hm.title)

\* ---- C3 ----
\* C3: every readable config file (category linting, typescript or formatting) that
\* extraction has processed contributed exactly one block: its content is the whole
\* file, lineStart is 1, lineEnd is the number of lines of the file, and the section
\* title is the file's relative path.
C3_ConfigOneBlock ==
  \A k \in 1..(fileIdx - 1) :
    LET f == found[k]
        mine == SelectSeq(blocks, LAMBDA b : b.file = f.relativePath)
    IN  (f.category \in {"linting", "typescript", "formatting"} /\ fs[f.relativePath].readable) =>
          /\ Len(mine) = 1
          /\ mine[1].content = fs[f.relativePath].content
          /\ mine[1].lineStart = 1
          /\ mine[1].lineEnd = LineCount(fs[f.relativePath].content)
          /\ mine[1].section = f.relativePath

\* a config file holding a heading line on its second line came out as one block
C3_ConfigWithHeadingKeptWhole ==
  \E i \in 1..Len(blocks) :
    /\ blocks[i].category = "formatting"
    /\ includes(blocks[i].content, "\n## Rules\n")
    /\ blocks[i].lineEnd >= 3
    /\ blocks[i].section = ".prettierrc"

\* ---- C4 ----
\* C4: an emitted block of a section-split file has at least 50 characters of content,
\* and an emitted whole-file config block has at least 30.
C4_LengthThresholds ==
  \A i \in 1..Len(blocks) :
    IF IsSectionBlock(blocks[i]) THEN Len(blocks[i].content) >= 50
    ELSE Len(blocks[i].content) >= 30

\* ---- C5 ----
\* C5: a section titled "preamble" with fewer than 3 non-blank lines is dropped
\* whatever its content; one with 3 or more non-blank lines is emitted exactly when it
\* passes the other checks (length, licence text, a positive signal).
C5_ThinPreambleDropped ==
  \A i \in 1..Len(candidates) :
    LET c == candidates[i]
    IN  c.section = "preamble" =>
          IF NonBlankCount(c.content) < 3 THEN ~c.kept
          ELSE c.kept <=> (/\ Len(c.content) >= 50
                           /\ ~IsLegalText(c.content)
                           /\ hasPositiveSignal(c.content))

\* a two-line preamble, long enough and holding "must", was dropped
C5_TwoLinePreambleSeen ==
  \E i \in 1..Len(candidates) :
    /\ candidates[i].section = "preamble"
    /\ ~headingMatch(FirstLine(candidates[i].content)).matched
    /\ NonBlankCount(candidates[i].content) = 2
    /\ Len(candidates[i].content) >= 50
    /\ includes(toLowerCase(candidates[i].content), "must")
    /\ ~candidates[i].kept

\* ---- C6 ----
\* C6: a section whose content, compared case-insensitively, contains "mit license" or
\* "apache license" or starts with "copyright" is dropped; no emitted block of a
\* section-split file has such content.
C6_LegalTextDropped ==
  /\ \A i \in 1..Len(candidates) : IsLegalText(candidates[i].content) => ~candidates[i].kept
  /\ \A i \in 1..Len(blocks) : IsSectionBlock(blocks[i]) => ~IsLegalText(blocks[i].content)

\* a section naming the Apache licence in capitals, otherwise fit to emit, was dropped
C6_LicenceSectionSeen ==
  \E i \in 1..Len(candidates) :
    /\ includes(candidates[i].content, "Apache License")
    /\ candidates[i].section # "preamble"
    /\ ~isSessionLogTitle(candidates[i].section)
    /\ Len(candidates[i].content) >= 50
    /\ hasPositiveSignal(candidates[i].content)
    /\ ~candidates[i].kept

\* ---- C7 ----
\* C7: a section whose title begins, case-insensitively, with "session", "seneste
\* session", "tidligere session", "changelog", "version histor" or "v<digits>.<digits>"
\* is dropped: no emitted block of a section-split file opens with a heading of such a
\* title or carries such a section title.
C7_SessionLogDropped ==
  \A i \in 1..Len(blocks) :
    LET hm == headingMatch(FirstLine(blocks[i].content))
    IN  IsSectionBlock(blocks[i]) =>
          /\ ~isSessionLogTitle(blocks[i].section)
          /\ ~(hm.matched /\ isSessionLogTitle(trim(hm.title)))

\* ---- C8 ----
\* one of the signals the statement lists
ListedSignal(content) ==
  LET lower == toLowerCase(content)
  IN  \/ anyWord(lower, {"must", "should", "always", "never", "don't", "avoid", "prefer", "require"})
      \/ anyWord(lower, {"skal", "altid", "aldrig", "undgå", "brug ikke", "foretrækker",
                         "påkrævet", "obligatorisk"})
      \/ anyWord(lower, {"pattern", "convention", "rule", "standard", "best practice"})
      \/ anyWord(lower, {"mønster", "konvention", "regel", "vigtigt"})
      \/ includes(content, CodeFence)
      \/ hasBold(content)
      \/ includes(content, "- [ ]") \/ includes(content, "- [x]")
      \/ hasBullet(content)
      \/ anyWord(content, {CrossMark, CheckMark, WarningSign, VariationSelector})

\* a code keyword or a quality keyword, in any case, anywhere in the content
KeywordSignal(content) ==
  LET lower == toLowerCase(content)
  IN  \/ anyWord(lower, {"import", "export", "async", "await", "function", "class", "const", "let"})
      \/ anyWord(lower, {"error", "test", "lint", "format", "style", "security", "auth"})

\* C8 as stated: a section that passes the earlier checks is emitted exactly when its
\* content matches one of the listed signals (normative or rule words in English or
\* Danish, a code fence, bold text, a checklist item, a bullet line, a signal emoji).
C8_ListedSignalsOnly ==
  \A i \in 1..Len(candidates) :
    PassesEarlierChecks(candidates[i]) =>
      (candidates[i].kept <=> ListedSignal(candidates[i].content))

\* C8, amended: a section that passes the earlier checks is emitted exactly when its
\* content matches one of the listed signals or holds a code keyword (import, export,
\* async, await, function, class, const, let) or a quality keyword (error, test, lint,
\* format, style, security, auth); a section matching none of these is dropped.
C8_ListedOrKeywordSignals ==
  \A i \in 1..Len(candidates) :
    PassesEarlierChecks(candidates[i]) =>
      (candidates[i].kept <=> (ListedSignal(candidates[i].content)
                                 \/ KeywordSignal(candidates[i].content)))

\* a section that passed the earlier checks was emitted on a code or quality keyword
\* alone: none of the listed signals is in it
C8_KeywordOnlySectionEmitted ==
  \E i \in 1..Len(candidates) :
    /\ PassesEarlierChecks(candidates[i])
    /\ ~ListedSignal(candidates[i].content)
    /\ KeywordSignal(candidates[i].content)
    /\ candidates[i].kept

\* ---- C9 ----
RECURSIVE ExtractAll(_, _)
\* the blocks of a list of files, file by file
ExtractAll(tree, files) ==
  IF files = <<>> THEN <<>>
  ELSE extractFile(tree, Head(files)) \o ExtractAll(tree, Tail(files))

RECURSIVE RelativePaths(_)
RelativePaths(files) ==
  IF files = <<>> THEN <<>> ELSE <<Head(files).relativePath>> \o RelativePaths(Tail(files))

\* C9: when extraction has returned, every file was taken in turn; a file that could
\* not be read was logged as a warning and gave no block, and the blocks are those of
\* the readable files, in order, as if the unreadable ones had not been listed.
C9_UnreadableSkipped ==
  pc = "extracted" =>
    /\ fileIdx = Len(found) + 1
    /\ \A i \in 1..Len(blocks) : fs[blocks[i].file].readable
    /\ warnings = RelativePaths(SelectSeq(found, LAMBDA f : ~fs[f.relativePath].readable))
    /\ blocks = ExtractAll(fs, SelectSeq(found, LAMBDA f : fs[f.relativePath].readable))

\* extraction returned after an unreadable file, with a block of a file listed after it
C9_ReturnedPastUnreadable ==
  /\ pc = "extracted"
  /\ \E k \in 1..Len(found) : \E j \in 1..Len(found) :
       /\ k < j
       /\ ~fs[found[k].relativePath].readable
       /\ found[k].relativePath \in {warnings[w] : w \in 1..Len(warnings)}
       /\ \E i \in 1..Len(blocks) : blocks[i].file = found[j].relativePath

\* ---- C10 ----
\* C10: once discovery has returned, an entry of the known-file table is in the result
\* exactly when its path is a regular file of the repository; it is there once, with
\* the priority and category of the table; a path that is missing or is a directory
\* is left out, and with no regular file at a table path and no docs directory the
\* result is empty.
C10_KnownFilesFound ==
  pc # "discover" =>
    /\ \A k \in 1..Len(KNOWLEDGE_FILES) :
         LET entry == KNOWLEDGE_FILES[k]
             hits == SelectSeq(found, LAMBDA f : f.relativePath = entry.pattern)
         IN  IF entry.pattern \in DOMAIN fs /\ fs[entry.pattern].kind = "file"
             THEN /\ Len(hits) = 1
                  /\ hits[1].priority = entry.priority
                  /\ hits[1].category = entry.category
             ELSE hits = <<>>
    /\ ((\A k \in 1..Len(KNOWLEDGE_FILES) :
            ~(KNOWLEDGE_FILES[k].pattern \in DOMAIN fs
              /\ fs[KNOWLEDGE_FILES[k].pattern].kind = "file"))
        /\ "docs" \notin DOMAIN fs) => found = <<>>

\* discovery returned on a repository where one table path is a directory and another
\* a regular file: the file is in the result, the directory is not
C10_DirectoryLeftOut ==
  /\ pc # "discover"
  /\ \E k \in 1..Len(KNOWLEDGE_FILES) : \E j \in 1..Len(KNOWLEDGE_FILES) :
       LET d == KNOWLEDGE_FILES[k].pattern
           f == KNOWLEDGE_FILES[j].pattern
       IN  /\ d \in DOMAIN fs /\ fs[d].kind = "dir"
           /\ f \in DOMAIN fs /\ fs[f].kind = "file"
           /\ \E i \in 1..Len(found) : found[i].relativePath = f
           /\ \A i \in 1..Len(found) : found[i].relativePath # d

\* ---- C11 ----
\* the position of the last "/" of a path, 0 if it has none
LastSlash(path) ==
  LET slashes == {i \in 1..Len(path) : CharAt(path, i) = "/"}
  IN  IF slashes = {} THEN 0 ELSE CHOOSE i \in slashes : \A j \in slashes : j <= i

Parent(path) == SubSeq(path, 1, LastSlash(path) - 1)
BaseName(path) == SubSeq(path, LastSlash(path) + 1, Len(path))

RECURSIVE InDocsTree(_, _)
\* d is the documentation directory, or a directory that is not hidden and is listed
\* below it through readable directories
InDocsTree(tree, d) ==
  /\ d \in DOMAIN tree /\ tree[d].kind = "dir"
  /\ \/ d = "docs"
     \/ /\ LastSlash(d) > 0
        /\ ~startsWith(BaseName(d), ".")
        /\ InDocsTree(tree, Parent(d))
        /\ tree[Parent(d)].readable

\* the relative paths of the files discovery returned
FoundPaths == {found[i].relativePath : i \in 1..Len(found)}

\* C11: when a directory of the documentation tree cannot be read, discovery still
\* returns, and only that branch is missing: every regular file at a known-file path
\* and every .md/.mdx/.txt file listed in a readable directory of the documentation
\* tree is in the result.
C11_ReadableBranchesKept ==
  pc # "discover" =>
    /\ \A k \in 1..Len(KNOWLEDGE_FILES) :
         (KNOWLEDGE_FILES[k].pattern \in DOMAIN fs /\ fs[KNOWLEDGE_FILES[k].pattern].kind = "file")
           => KNOWLEDGE_FILES[k].pattern \in FoundPaths
    /\ \A d \in DOMAIN fs :
         (InDocsTree(fs, d) /\ fs[d].readable) =>
           \A i \in 1..Len(fs[d].names) :
             LET file == d \o "/" \o fs[d].names[i]
             IN  (file \in DOMAIN fs /\ fs[file].kind = "file" /\ isDocName(fs[d].names[i]))
                   => file \in FoundPaths

\* classifyFragments has returned, with either revision of classify.js
Returned == pc \in {"done", "done.part_003"}

\* ---- C12 ----
\* the title matches a pattern of entry k of the override table
TitleMatches(title, k) ==
  \E w \in TITLE_CATEGORY_OVERRIDES[k].patterns : includes(toLowerCase(title), w)

AuthTitle(title) == anyWord(toLowerCase(title), {"auth", "login", "role"})

\* the category of the first of the five entries before auth-pattern in the override
\* table that the title matches, "" if it matches none
EarlierOverride(title) ==
  LET t == toLowerCase(title)
  IN  IF anyWord(t, {"regler", "rules", "conventions", "standards", "vigtigt", "important",
                     "hård", "hard"}) THEN "conventions"
      ELSE IF anyWord(t, {"ui pattern", "component", "knap", "button", "søge", "search"})
      THEN "ui-patterns"
      ELSE IF anyWord(t, {"git", "commit", "workflow"}) THEN "git-workflow"
      ELSE IF anyWord(t, {"deploy", "hosting", "env", "sync"}) THEN "deployment"
      ELSE IF anyWord(t, {"test", "e2e", "spec"}) THEN "testing"
      ELSE ""

\* C13 as stated: every block whose section title contains "auth", "login" or "role"
\* becomes a fragment of category auth-pattern, whatever the rest of the title and the
\* content.
C13_AuthTitleForcesAuth ==
  Returned =>
    \A i \in 1..Len(blocks) :
      AuthTitle(blocks[i].section) => fragments[i].category = "auth-pattern"

\* C13, amended: a block whose section title contains "auth", "login" or "role" becomes
\* a fragment of category auth-pattern whatever its content, unless the title also
\* matches an override pattern of conventions, ui-patterns, git-workflow, deployment or
\* testing; then its category is the first of these that the title matches.
C13_AuthTitleAfterEarlierOverrides ==
  Returned =>
    \A i \in 1..Len(blocks) :
      AuthTitle(blocks[i].section) =>
        fragments[i].category = IF EarlierOverride(blocks[i].section) = "" THEN "auth-pattern"
                                ELSE EarlierOverride(blocks[i].section)

\* one run classified the section "Auth roles" as auth-pattern and the section
\* "Auth rules" as conventions
C13_AuthRolesAndAuthRules ==
  /\ Returned
  /\ \E i \in 1..Len(blocks) : \E j \in 1..Len(blocks) :
       /\ blocks[i].section = "Auth roles" /\ fragments[i].category = "auth-pattern"
       /\ blocks[j].section = "Auth rules" /\ fragments[j].category = "conventions"

\* ---- C14 ----
\* the number of times the signals of entry k of the type table occur in the content
TypeScore(content, k) == signalScore(content, TYPE_SIGNALS[k].signals)

\* C14: the type of every fragment is a type whose signals occur most often in the
\* content of its block, also when an earlier type of the table has a lower positive
\* score, and it is convention when no signal of any type occurs.
C14_HighestTypeScoreWins ==
  Returned =>
    \A i \in 1..Len(blocks) :
      LET content == blocks[i].content
          top == {k \in 1..Len(TYPE_SIGNALS) :
                    \A j \in 1..Len(TYPE_SIGNALS) : TypeScore(content, j) <= TypeScore(content, k)}
      IN  IF \A k \in 1..Len(TYPE_SIGNALS) : TypeScore(content, k) = 0
          THEN fragments[i].type = "convention"
          ELSE fragments[i].type \in {TYPE_SIGNALS[k].type : k \in top}

\* ---- C15 ----
\* C15: the confidence of every fragment follows from the category and the tier of the
\* file its block comes from: high for ai-instructions, conventions and architecture,
\* medium for every other file of tier 3 or better, low for the rest (tier 4, the
\* configuration files).
C15_ConfidenceByCategoryAndTier ==
  Returned =>
    \A i \in 1..Len(blocks) :
      fragments[i].confidence =
        IF blocks[i].category \in {"ai-instructions", "conventions", "architecture"} THEN "high"
        ELSE IF blocks[i].priority <= 3 THEN "medium"
        ELSE "low"

\* ---- C16 ----
\* C16: the fragments of one run over one repository have pairwise different ids; in
\* particular two fragments of the same file that start on different lines do.
C16_IdsPairwiseDifferent ==
  Returned =>
    \A i \in 1..Len(fragments) : \A j \in 1..Len(fragments) :
      i # j => fragments[i].id # fragments[j].id

\* ---- C17 ----
\* fragments x and y of two runs are the same section of the same file with the same
\* text
SameSection(x, y) ==
  /\ x.source.file = y.source.file
  /\ x.title = y.title
  /\ x.description = y.description

\* two runs of a batch on the same repository at the same revision give the same ids
SameIdsOnRerun ==
  \A i \in 1..Len(returned) : \A j \in 1..Len(returned) :
    repos[i] = repos[j] =>
      /\ Len(returned[i]) = Len(returned[j])
      /\ \A a \in 1..Len(returned[i]) : returned[i][a].id = returned[j][a].id

\* C17 as stated: a second run on the unchanged repository gives every fragment the id
\* it had, and after a change to the lines of another section of its file a fragment
\* still has the id it had.
C17_IdsSurviveEditsElsewhere ==
  /\ SameIdsOnRerun
  /\ \A i \in 1..Len(returned) : \A j \in 1..Len(returned) :
       repos[i].info = repos[j].info =>
         \A a \in 1..Len(returned[i]) : \A b \in 1..Len(returned[j]) :
           SameSection(returned[i][a], returned[j][b])
             => returned[i][a].id = returned[j][b].id

\* C17, amended: a second run on the unchanged repository gives every fragment the id
\* it had, and after a change to the lines of another section of its file a fragment
\* still has the id it had if it still starts on the line it started on.
C17_IdsSurviveEditsKeepingLine ==
  /\ SameIdsOnRerun
  /\ \A i \in 1..Len(returned) : \A j \in 1..Len(returned) :
       repos[i].info = repos[j].info =>
         \A a \in 1..Len(returned[i]) : \A b \in 1..Len(returned[j]) :
           (/\ SameSection(returned[i][a], returned[j][b])
            /\ returned[i][a].source.line = returned[j][b].source.line)
             => returned[i][a].id = returned[j][b].id

\* the first section of CLAUDE.md lost its block between two runs and the second
\* section, still starting on line 4, kept its id
C17_EditedAboveSameLine ==
  /\ Len(returned) >= 2
  /\ repos[1].info = repos[2].info
  /\ Len(returned[1]) = 2 /\ Len(returned[2]) = 1
  /\ SameSection(returned[1][2], returned[2][1])
  /\ returned[1][2].source.line = 4 /\ returned[2][1].source.line = 4
  /\ returned[1][2].id = returned[2][1].id

OwnFragments(repo) ==
  IF acquired(repo)
  THEN classifyFragments(ExtractAll(repo.tree, discoverFiles(repo.tree)), repo.stack,
                         infoOf(repo))
  ELSE <<>>

RECURSIVE OwnFragmentsUpTo(_)
\* the concatenation, in input order, of what the first n repositories of the batch give
OwnFragmentsUpTo(n) ==
  IF n = 0 THEN <<>> ELSE OwnFragmentsUpTo(n - 1) \o OwnFragments(repos[n])

\* C19: a repository that fails contributes the empty list and nothing else changes:
\* the loop reaches its end only after every repository of the batch was processed, and
\* the combined result is the concatenation, in input order, of what each repository
\* gives on its own.
C19_FailureIsLocal ==
  /\ \A i \in 1..Len(returned) : ~acquired(repos[i]) => returned[i] = <<>>
  /\ pc \in {"acquire", "end"} =>
       /\ Len(returned) = repoIdx - 1
       /\ allFragments = OwnFragmentsUpTo(repoIdx - 1)
  /\ pc = "end" => Len(returned) = Len(repos)

\* a batch of three whose second repository failed has ended with the fragments of the
\* first followed by those of the third
C19_BrokenInTheMiddle ==
  /\ pc = "end"
  /\ Len(repos) = 3
  /\ ~acquired(repos[2])
  /\ returned[1] # <<>> /\ returned[2] = <<>> /\ returned[3] # <<>>
  /\ returned[1] # returned[3]
  /\ allFragments = returned[1] \o returned[3]

\* ---- C20 ----
\* C20: every fragment classifyFragments returns has the ten fields id, stack, category,
\* type, title, description, example, source, confidence and tags and no other, and
\* its source has the four fields repo, file, line and url and no other.
C20_ExactlyTheTenFields ==
  Returned =>
    \A i \in 1..Len(fragments) :
      /\ DOMAIN fragments[i] = {"id", "stack", "category", "type", "title", "description",
                                "example", "source", "confidence", "tags"}
      /\ DOMAIN fragments[i].source = {"repo", "file", "line", "url"}

\* ---- C21 ----
\* C21: the source.url of a fragment is empty when the repository has no remote URL,
\* and otherwise it is that URL followed by the path of the file and the line on which
\* the fragment's block starts.
C21_UrlLinksToStartingLine ==
  Returned =>
    \A i \in 1..Len(blocks) :
      fragments[i].source.url =
        IF repoInfo.url = "" THEN ""
        ELSE repoInfo.url \o "/blob/main/" \o blocks[i].file \o "#L"
               \o ToString(blocks[i].lineStart)

\* ---- C22 ----
\* a title or a line without its leading characters of set cs, cut to 100 characters
CutTo100(s, cs) ==
  LET from == SkipChars(s, 1, cs)
  IN  SubSeq(s, from, IF Len(s) - from + 1 > 100 THEN from + 99 ELSE Len(s))

\* C22: the title of a fragment is the section title of its block cut to 100
\* characters; for a preamble block it is the first non-blank line of the content
\* without its leading list and heading punctuation, cut to 100 characters; so no title
\* is longer than 100 characters.
C22_TitleFromSectionOrFirstLine ==
  Returned =>
    \A i \in 1..Len(blocks) :
      /\ Len(fragments[i].title) <= 100
      /\ blocks[i].section # "preamble"
           => fragments[i].title = CutTo100(blocks[i].section, {"#", " "})
      /\ (blocks[i].section = "preamble" /\ NonBlankCount(blocks[i].content) > 0)
           => fragments[i].title =
                CutTo100(Head(SelectSeq(splitLines(blocks[i].content),
                                        LAMBDA l : Len(trim(l)) > 0)),
                         {"#", "*", "-", " ", "\t"})

\* ---- C23 ----
\* C23: every block extraction emits has lineStart <= lineEnd, and of two blocks of the
\* same file the one emitted first ends on a line before the one on which the other
\* starts: the blocks of a file come in increasing lineStart order and never overlap.
C23_BlocksInOrderNoOverlap ==
  /\ \A i \in 1..Len(blocks) : blocks[i].lineStart <= blocks[i].lineEnd
  /\ \A i \in 1..Len(blocks) : \A j \in 1..Len(blocks) :
       (i < j /\ blocks[i].file = blocks[j].file)
         => /\ blocks[i].lineStart < blocks[j].lineStart
            /\ blocks[i].lineEnd < blocks[j].lineStart

\* extraction returned two blocks of one file, the second starting on the line after
\* the one the first ends on
C23_TwoAdjacentBlocks ==
  /\ pc = "extracted"
  /\ \E i \in 1..(Len(blocks) - 1) :
       /\ blocks[i].file = blocks[i + 1].file
       /\ blocks[i].lineStart < blocks[i].lineEnd
       /\ blocks[i + 1].lineStart = blocks[i].lineEnd + 1

\* ---- C24 ----
\* the position of a file in the list discovery returned
FoundAt(file) == CHOOSE k \in 1..Len(found) : found[k].relativePath = file

\* C24: the blocks of extractKnowledge follow the order of the files in the list it was
\* given and, within a file, the order of the sections; classifyFragments returns one
\* fragment per block, in the order of the blocks.
C24_FileOrderThenSectionOrder ==
  /\ \A i \in 1..Len(blocks) : \A j \in 1..Len(blocks) :
       i < j =>
         \/ FoundAt(blocks[i].file) < FoundAt(blocks[j].file)
         \/ /\ blocks[i].file = blocks[j].file
            /\ blocks[i].lineStart < blocks[j].lineStart
  /\ Returned =>
       /\ Len(fragments) = Len(blocks)
       /\ \A i \in 1..Len(blocks) :
            /\ fragments[i].source.file = blocks[i].file
            /\ fragments[i].description = substring0(blocks[i].content, 500)

\* a repository of four files, two sections each where split, was classified: the
\* blocks of at least three files, some file with two, and as many fragments
C24_SeveralFilesClassified ==
  /\ Returned
  /\ Len(found) >= 3
  /\ Cardinality({blocks[i].file : i \in 1..Len(blocks)}) >= 3
  /\ \E i \in 1..(Len(blocks) - 1) :
       blocks[i].file = blocks[i + 1].file /\ blocks[i].content # blocks[i + 1].content
  /\ Len(fragments) = Len(blocks)

\* ---- C25 ----
\* the position of a path in the known-file table, 0 for a path the table does not hold
TableAt(path) ==
  IF \E k \in 1..Len(KNOWLEDGE_FILES) : KNOWLEDGE_FILES[k].pattern = path
  THEN CHOOSE k \in 1..Len(KNOWLEDGE_FILES) : KNOWLEDGE_FILES[k].pattern = path
  ELSE 0

\* the name right below directory d on path p
NameBelow(d, p) ==
  LET rest == SubSeq(p, Len(d) + 2, Len(p))
      slashes == {k \in 1..Len(rest) : CharAt(rest, k) = "/"}
  IN  IF slashes = {} THEN rest ELSE SubSeq(rest, 1, Min(slashes) - 1)

\* the documentation scan, going through every directory in the order readdir lists it
\* and into a directory where it meets it, comes to path a before path b
ScannedBefore(a, b) ==
  LET common == {d \in DOMAIN fs : /\ fs[d].kind = "dir"
                                   /\ startsWith(a, d \o "/") /\ startsWith(b, d \o "/")}
      d == CHOOSE x \in common : \A y \in common : Len(y) <= Len(x)
      ListedAt(n) == CHOOSE k \in 1..Len(fs[d].names) : fs[d].names[k] = n
  IN  ListedAt(NameBelow(d, a)) < ListedAt(NameBelow(d, b))

\* discovery comes to file f before file g: table order for two known files, a known
\* file before a documentation file, scan order for two documentation files
DiscoveredBefore(f, g) ==
  IF TableAt(f.relativePath) > 0 /\ TableAt(g.relativePath) > 0
  THEN TableAt(f.relativePath) < TableAt(g.relativePath)
  ELSE IF TableAt(f.relativePath) > 0 THEN TRUE
  ELSE IF TableAt(g.relativePath) > 0 THEN FALSE
  ELSE ScannedBefore(f.relativePath, g.relativePath)

\* C25: the list of discoverFiles is in ascending order of priority tier, and two files
\* of the same tier are in the order in which discovery came to them.
C25_SortedByTierStable ==
  \A i \in 1..Len(found) : \A j \in 1..Len(found) :
    i < j =>
      /\ found[i].priority <= found[j].priority
      /\ found[i].priority = found[j].priority => DiscoveredBefore(found[i], found[j])

\* discovery returned a known file of tier 3, then documentation files from several
\* directories, then a configuration file of tier 4
C25_DocsBetweenTiers ==
  /\ Len(found) >= 5
  /\ TableAt(found[1].relativePath) > 0 /\ found[1].priority = 3
  /\ found[2].relativePath = "docs/zeta.md"
  /\ found[3].relativePath = "docs/a/one.md"
  /\ found[Len(found) - 1].relativePath = "docs/alpha.md"
  /\ found[Len(found)].priority = 4

\* ---- C26 ----
\* the number of directories between the documentation directory and a file below it
\* (0 for a file of docs itself)
DepthBelowDocs(path) ==
  Cardinality({k \in 1..Len(path) : CharAt(path, k) = "/"}) - 1

\* some directory on the way from docs to the file has a name starting with a dot
UnderDotDir(path) ==
  \E d \in DOMAIN fs :
    /\ fs[d].kind = "dir"
    /\ startsWith(path, d \o "/")
    /\ startsWith(BaseName(d), ".")

\* the files of the list that the documentation scan returned
ScanResult == SelectSeq(found, LAMBDA f : TableAt(f.relativePath) = 0)

\* C26: every file the documentation scan returns lies at most maxDepth directories
\* below the documentation directory and under no directory whose name starts with a
\* dot, and has category documentation and tier 3; where the tree goes deeper than
\* maxDepth the scan still returns the files above the limit.
C26_ScanBoundedAndTagged ==
  /\ \A i \in 1..Len(ScanResult) :
       /\ DepthBelowDocs(ScanResult[i].relativePath) <= maxDepth
       /\ ~UnderDotDir(ScanResult[i].relativePath)
       /\ ScanResult[i].category = "documentation"
       /\ ScanResult[i].priority = 3
  /\ (pc # "discover" /\ "docs/a/b/c/d" \in DOMAIN fs)
       => \E i \in 1..Len(ScanResult) : ScanResult[i].relativePath = "docs/a/b/c/three.md"

\* the scan ran on a tree with a readable directory four levels below docs and one with
\* a dot name, both holding a markdown file, and returned the file three levels below
C26_StoppedAtDepthLimit ==
  /\ pc # "discover"
  /\ "docs/a/b/c/d/four.md" \in DOMAIN fs /\ "docs/.hidden/h.md" \in DOMAIN fs
  /\ \E i \in 1..Len(found) : found[i].relativePath = "docs/a/b/c/three.md"
  /\ \A i \in 1..Len(found) : found[i].relativePath # "docs/a/b/c/d/four.md"

\* ---- C27 ----
\* the number of occurrences of the keywords of table entry k in the content
CategoryScore(content, k) == keywordScore(toLowerCase(content), CATEGORY_KEYWORDS[k].keywords)

\* the position of a category in the category table, 0 if it is none of the table
CategoryAt(category) ==
  IF \E k \in 1..Len(CATEGORY_KEYWORDS) : CATEGORY_KEYWORDS[k].category = category
  THEN CHOOSE k \in 1..Len(CATEGORY_KEYWORDS) : CATEGORY_KEYWORDS[k].category = category
  ELSE 0

\* entry c of the table has the highest score on the content and every entry before it
\* a lower one; with every score zero, c is conventions
HighestFirstOnTie(content, c) ==
  \E m \in {CategoryScore(content, c)} :
    /\ \A j \in 1..Len(CATEGORY_KEYWORDS) :
         IF j < c /\ m > 0 THEN CategoryScore(content, j) < m
         ELSE CategoryScore(content, j) <= m
    /\ m = 0 => CATEGORY_KEYWORDS[c].category = "conventions"

\* C27: the category of a fragment is a category of the table; where the title of its
\* block matches no override pattern it is the category with the highest keyword count
\* in the content, the first of the table among those that tie, and conventions when no
\* keyword of any category occurs.
C27_HighestKeywordScoreFirstOnTie ==
  Returned =>
    \A i \in 1..Len(blocks) :
      /\ CategoryAt(fragments[i].category) > 0
      /\ (\A k \in 1..Len(TITLE_CATEGORY_OVERRIDES) : ~TitleMatches(blocks[i].section, k))
           => HighestFirstOnTie(blocks[i].content, CategoryAt(fragments[i].category))

\* a block without title override whose content scores 1 for imports and 1 for
\* ui-patterns, the entry after it, became a fragment of category imports
C27_TieGoesToFirst ==
  /\ Returned
  /\ \E i \in 1..Len(blocks) :
       /\ \A k \in 1..Len(TITLE_CATEGORY_OVERRIDES) : ~TitleMatches(blocks[i].section, k)
       /\ fragments[i].category = "imports"
       /\ CategoryScore(blocks[i].content, CategoryAt("imports")) = 1
       /\ CategoryScore(blocks[i].content, CategoryAt("ui-patterns")) = 1
       /\ CategoryAt("imports") < CategoryAt("ui-patterns")

\* ---- C28 ----
\* the tags of the technology table of the revision that classified, in table order
TagTable ==
  IF pc = "done.part_003"
  THEN [k \in 1..Len(techPatternTags("")) |-> techPatternTags("")[k].tag]
  ELSE techTerms

\* the position of a tag in the technology table, 0 if the table does not hold it
TagAt(tag) ==
  IF \E k \in 1..Len(TagTable) : TagTable[k] = tag
  THEN CHOOSE k \in 1..Len(TagTable) : TagTable[k] = tag
  ELSE 0

\* C28: the tags of a fragment are the names of the stack items in stack order, then
\* technology terms of the table in table order, among them every term that occurs in
\* the content and is not a stack name; no string is in the list twice, also when a
\* term that occurs in the content is the name of a stack item.
C28_StackThenTermsNoDuplicate ==
  Returned =>
    \A i \in 1..Len(blocks) :
      LET tags == fragments[i].tags
          n == Len(stack)
      IN  /\ Len(tags) >= n
          /\ \A a \in 1..n : tags[a] = stack[a].name
          /\ \A a \in 1..Len(tags) : \A b \in 1..Len(tags) : a < b => tags[a] # tags[b]
          /\ \A a \in (n + 1)..Len(tags) : TagAt(tags[a]) > 0
          /\ \A a \in (n + 1)..Len(tags) : \A b \in (n + 1)..Len(tags) :
               a < b => TagAt(tags[a]) < TagAt(tags[b])
          /\ \A k \in 1..Len(TagTable) :
               includes(toLowerCase(blocks[i].content), TagTable[k])
                 => \E a \in 1..Len(tags) : tags[a] = TagTable[k]

\* a block whose content names turbo, capacitor, schema and migration, with turbo and
\* capacitor in the stack, got the three stack names followed by migration and schema
C28_TermEqualsStackName ==
  /\ Returned
  /\ stack = TagStack
  /\ \E i \in 1..Len(blocks) :
       /\ includes(toLowerCase(blocks[i].content), "turbo")
       /\ includes(toLowerCase(blocks[i].content), "capacitor")
       /\ fragments[i].tags = <<"turbo", "capacitor", "next.js", "migration", "schema">>

\* ---- C29 ----
\* C29: in one batch run, two fragments that come from different repositories never have
\* the same id, also when they have the same relative file path and starting line and
\* the repositories are local ones without a git remote. Two repositories are different
\* when getRepoInfo or cloneRepo gives them different identities.
C29_IdsDifferAcrossRepositories ==
  \A i \in 1..Len(returned) : \A j \in 1..Len(returned) :
    infoOf(repos[i]) # infoOf(repos[j]) =>
      \A a \in 1..Len(returned[i]) : \A b \in 1..Len(returned[j]) :
        returned[i][a].id # returned[j][b].id

\* ---- C30 ----
\* the input is an absolute path
IsAbsolute(repoInput) == startsWith(repoInput, "/")

\* C30: processRepo chooses with the priority absolute local path, then GitHub URL or
\* owner/repo shorthand, then relative local path: an input that is the absolute path of
\* an existing directory is used in place and never cloned, another input that parses
\* as a GitHub URL or as owner/repo is cloned even when a relative directory of that
\* name exists, and any other existing directory is used in place.
C30_AbsoluteLocalThenGitHubThenRelative ==
  \A i \in 1..Len(located) :
    IF IsAbsolute(repos[i].input) /\ repos[i].isDir THEN located[i] = "local"
    ELSE IF parseRepoIdentifier(repos[i].input).ok THEN located[i] = "clone"
    ELSE repos[i].isDir => located[i] = "local"

====
